---- MODULE Spec2Model ----
(***************************************************************************)
(* Model of device_cloud/sds.py (class SmartDataStorage): the sqlite-backed *)
(* store-and-forward buffer.  A table is the sequence of its rows in rowid  *)
(* order; the connection's open transaction is the flag in_txn; the three   *)
(* publish_unsent_* methods are one multi-step operation whose position is  *)
(* pc and whose locals are the record pub.                                  *)
(***************************************************************************)
EXTENDS Integers, Sequences, FiniteSets, TLC

\* ------------------------------------------------------------------ bounds
MaxInserts == 3     \* rows ever inserted, over all tables
MaxEntries == 2     \* largest retain_max_entries a caller configures

\* --------------------------------------------------------- class constants
TELEMETRY == "telemetry"
LOCATION  == "location"
ATTRIBUTE == "attribute"
ALARM     == "alarm"

STATE_SENT      == "sent"
STATE_UNSENT    == "unsent"
STATE_REMOVE    == "remove"
STATE_RETAIN    == "retain"
STATE_PUBLISHED == "published"
STATE_IGNORE    == "ignore"

TELEMETRY_VALUE   == "value"
LOCATION_LATITUDE == "latitude"

STORAGE_MAX_DAYS == "max_days"
STORAGE_LIMITED  == "limited"

STORAGE_LIMITED_MAX        == 1000000
STORAGE_LIMITED_NUM_TO_AGE == 20

STORAGE_AGE_OLDEST  == 1
STORAGE_KEEP_OLDEST == 2

STATUS_SUCCESS == "STATUS_SUCCESS"
STATUS_FAILURE == "STATUS_FAILURE"
STATUS_FULL    == "STATUS_FULL"
\* constants.STATUS_STATUS_FULL, the value apply_retention_policy returns
\* under STORAGE_KEEP_OLDEST
STATUS_STATUS_FULL == "STATUS_STATUS_FULL"

\* Python values of the optional arguments: None, and an argument left out
None    == "None"
Omitted == "omitted"
\* the outcome of a call that ends in an uncaught Python exception
Raised  == "raised"

table_list == <<TELEMETRY, LOCATION, ATTRIBUTE, ALARM>>
Tables     == {table_list[i] : i \in 1..Len(table_list)}
States     == {STATE_SENT, STATE_UNSENT, STATE_REMOVE, STATE_RETAIN,
               STATE_PUBLISHED, STATE_IGNORE}
\* the tables that have a publish_unsent_* method
PublishTables == {ALARM, TELEMETRY, LOCATION}

\* ------------------------------------------------------------------ inputs
Values     == {1}                    \* sample values a caller stores
\* the tables the model stores rows in and publishes from: the code for
\* LOCATION is the code for TELEMETRY and ALARM
RowTables  == {TELEMETRY, ALARM}
\* state arguments a caller passes to the insert entry points, to
\* update_state and to publish_unsent_*
StateArgs  == {Omitted, None, "", STATE_UNSENT, STATE_SENT}
UpdateArgs == {STATE_UNSENT, STATE_SENT}
PublishArgs == {STATE_SENT}
Thresholds == {0}                    \* plus_minus arguments

VARIABLES
    tbl,                 \* table name -> rows in rowid order
    seq,                 \* table name -> largest idx ever assigned (AUTOINCREMENT)
    in_txn,              \* the connection has an open transaction
    retention_policy, retention_drop_mode, retain_max_entries,
    num_to_age, max_days_to_retain,
    now,                 \* the clock, in days
    pc,                  \* position in publish_unsent_*: idle, send, update, ret
    pub,                 \* locals of the running publish_unsent_* call
    last,                \* the operation that returned last, and its result
    call                 \* the call that returned last: arguments and result

cfgvars == <<retention_policy, retention_drop_mode, retain_max_entries,
             num_to_age, max_days_to_retain>>
vars == <<tbl, seq, in_txn, retention_policy, retention_drop_mode,
          retain_max_entries, num_to_age, max_days_to_retain, now, pc, pub, last,
          call>>

\* ----------------------------------------------------------------- helpers
IdxOf(rows) == {rows[i].idx : i \in 1..Len(rows)}

RowAt(rows, i) == CHOOSE r \in {rows[j] : j \in 1..Len(rows)} : r.idx = i

RECURSIVE SumSeq(_)
SumSeq(s) == IF s = <<>> THEN 0 ELSE Head(s) + SumSeq(Tail(s))

Inserted == SumSeq([i \in 1..Len(table_list) |-> seq[table_list[i]]])

\* Python truthiness of a state argument: None and the empty string are false
Falsy(x) == x \in {None, ""}

\* the ts argument: <<>> when the caller gives none, <<t>> otherwise
NoTs == <<>>
\* a ts argument old enough for the row to be expired under STORAGE_MAX_DAYS
OldTs == <<now - max_days_to_retain - 1>>
\* the ts arguments a caller passes: no statement reads ts under
\* STORAGE_LIMITED, so only the default is followed there
TsArgs == IF retention_policy = STORAGE_MAX_DAYS THEN {NoTs, OldTs} ELSE {NoTs}

\* ------------------------------------------------------------ transactions
\* begin / statement / commit inside try, rollback in except (insert,
\* update_state, remove, custom_sql_command).  "begin" raises
\* OperationalError when a transaction is already open; fault is a backend
\* error of the statement or the commit.  The statement takes effect only
\* when neither happens; either way the except branch rolls back, so the
\* connection is left without a transaction.
Committed(txn, fault) == ~txn /\ ~fault

TxnStatus(txn, fault) ==
    IF Committed(txn, fault) THEN STATUS_SUCCESS ELSE STATUS_FAILURE

\* ---------------------------------------------------------- is_type_valid
is_type_valid(table) == \E i \in 1..Len(table_list) : table_list[i] = table

\* ----------------------------------------------------------- get_row_count
\* mutant: a failed count query reported as -1
get_row_count_minus(rows, fault) == IF fault THEN 0 - 1 ELSE Len(rows)

\* SELECT count(idx); a failed query counts as 0
get_row_count(rows, fault) == IF fault THEN 0 ELSE Len(rows)

\* ------------------------------------------------- apply_retention_policy
\* mutant: the DELETE spares unsent rows (WHERE status <> 'unsent' in the
\* inner SELECT)
DeleteOldestSent(rows, n) ==
    LET sent == SelectSeq(rows, LAMBDA r : r.status # STATE_UNSENT)
        gone == {sent[j].idx : j \in 1..(IF n < 0 \/ n >= Len(sent)
                                         THEN Len(sent) ELSE n)}
    IN  SelectSeq(rows, LAMBDA r : r.idx \notin gone)

\* DELETE ... WHERE idx IN (SELECT idx ... ORDER BY idx ASC LIMIT n);
\* a negative LIMIT is no limit
DeleteOldest(rows, n) ==
    IF n < 0 \/ n >= Len(rows) THEN <<>>
    ELSE SubSeq(rows, n + 1, Len(rows))

\* DELETE ... WHERE ts < datetime('now', '-d days'); ts and the clock are
\* counted in days
Expired(row, d) == row.ts < now - d

DeleteExpired(rows, d) == SelectSeq(rows, LAMBDA r : ~Expired(r, d))

\* mutant: the limit test off by one (count + 1 >= retain_max_entries)
apply_retention_policy_early(rows, txn, fc, fr) ==
    LET count == get_row_count(rows, fc)
    IN  IF retention_policy = STORAGE_LIMITED /\ count + 1 >= retain_max_entries
           /\ retention_drop_mode = STORAGE_AGE_OLDEST
        THEN [rows |-> IF Committed(txn, fr)
                       THEN DeleteOldest(rows, num_to_age) ELSE rows,
              ret  |-> TxnStatus(txn, fr),
              txn  |-> FALSE]
        ELSE [rows |-> rows, ret |-> STATUS_SUCCESS, txn |-> txn]

\* mutant: the drop mode is not looked at, the oldest rows are deleted
\* under STORAGE_KEEP_OLDEST too
apply_retention_policy_drop(rows, txn, fc, fr) ==
    LET count == get_row_count(rows, fc)
        lim ==
          IF retention_policy = STORAGE_LIMITED /\ count >= retain_max_entries
          THEN [rows |-> IF Committed(txn, fr)
                         THEN DeleteOldest(rows, num_to_age) ELSE rows,
                ret  |-> TxnStatus(txn, fr),
                txn  |-> FALSE]
          ELSE [rows |-> rows, ret |-> STATUS_SUCCESS, txn |-> txn]
    IN  IF retention_policy = STORAGE_MAX_DAYS /\ max_days_to_retain # 0
        THEN [rows |-> IF Committed(lim.txn, fr)
                       THEN DeleteExpired(lim.rows, max_days_to_retain)
                       ELSE lim.rows,
              ret  |-> TxnStatus(lim.txn, fr),
              txn  |-> FALSE]
        ELSE lim

\* returns the rows left, the status, and the transaction flag afterwards
apply_retention_policy(rows, txn, fc, fr) ==
    LET count == get_row_count(rows, fc)
        lim ==
          IF retention_policy = STORAGE_LIMITED /\ count >= retain_max_entries
          THEN IF retention_drop_mode = STORAGE_AGE_OLDEST
               THEN [rows |-> IF Committed(txn, fr)
                              THEN DeleteOldest(rows, num_to_age) ELSE rows,
                     ret  |-> TxnStatus(txn, fr),
                     txn  |-> FALSE]
               ELSE [rows |-> rows, ret |-> STATUS_STATUS_FULL, txn |-> txn]
          ELSE [rows |-> rows, ret |-> STATUS_SUCCESS, txn |-> txn]
    IN  IF retention_policy = STORAGE_MAX_DAYS /\ max_days_to_retain # 0
        THEN [rows |-> IF Committed(lim.txn, fr)
                       THEN DeleteExpired(lim.rows, max_days_to_retain)
                       ELSE lim.rows,
              ret  |-> TxnStatus(lim.txn, fr),
              txn  |-> FALSE]
        ELSE lim

\* ------------------------------------------------------------------ insert
\* the state insert() stores for the state argument it receives
StoredState(state) == IF Falsy(state) THEN STATE_SENT ELSE state

\* the state argument insert() receives when called directly: its default
InsertState(arg) == IF arg = Omitted THEN STATE_UNSENT ELSE arg

\* the state argument insert_telemetry / insert_location / insert_alarm
\* forward to insert(): their own default is None
WrapperState(arg) == IF arg = Omitted THEN None ELSE arg

\* the table an entry point inserts into
EntryTable(entry, table) ==
    CASE entry = "insert_telemetry" -> TELEMETRY
      [] entry = "insert_location"  -> LOCATION
      [] entry = "insert_alarm"     -> ALARM
      [] OTHER                      -> table

EntryState(entry, arg) ==
    IF entry = "insert" THEN InsertState(arg) ELSE WrapperState(arg)

\* the insert calls of the model, <<entry point, table, state argument>>:
\* insert() on a table that holds rows with every state argument, on the
\* other table names ("bogus" is no table of table_list) with none, and the
\* wrappers with and without one
InsertCalls ==
    {<<"insert", t, s>> : t \in RowTables, s \in StateArgs} \cup
    {<<"insert", ATTRIBUTE, Omitted>>, <<"insert", "bogus", Omitted>>} \cup
    {<<"insert_telemetry", TELEMETRY, s>> : s \in {Omitted, STATE_UNSENT}} \cup
    {<<"insert_alarm", ALARM, s>> : s \in {Omitted, STATE_UNSENT}}

\* where the backend fails during one insert(): nowhere, in the count
\* query, in the eviction command, or in the INSERT statement
InsertFaults == {"none", "count", "evict", "insert"}

\* the tables insert() builds an INSERT statement for
HasInsertSql(table) == table \in {TELEMETRY, LOCATION, ALARM}

\* mutant: idx declared INTEGER PRIMARY KEY without AUTOINCREMENT, so a new
\* row gets the largest idx in the table plus one
NewRowRowid(table, state, value, ts, latitude, longitude) ==
    LET idxs == IdxOf(tbl[table])
        top  == IF idxs = {} THEN 0 ELSE CHOOSE i \in idxs : \A j \in idxs : j <= i
    IN  [idx    |-> top + 1,
         value  |-> value,
         status |-> StoredState(state),
         ts     |-> IF ts = NoTs THEN now ELSE ts[1]]

\* the row the INSERT statement stores: the columns of the table that the
\* model follows (idx null is the next AUTOINCREMENT value)
NewRow(table, state, value, ts, latitude, longitude) ==
    IF table = LOCATION
    THEN [idx       |-> seq[table] + 1,
          latitude  |-> latitude,
          longitude |-> longitude,
          status    |-> StoredState(state),
          ts        |-> IF ts = NoTs THEN now ELSE ts[1]]
    ELSE [idx    |-> seq[table] + 1,
          value  |-> value,
          status |-> StoredState(state),
          ts     |-> IF ts = NoTs THEN now ELSE ts[1]]

\* mutant: no rollback in the except branch, so the row of an INSERT whose
\* commit failed stays in the table
insert_no_rollback(table, state, value, ts, latitude, longitude, fc, fr, fi) ==
    IF ~is_type_valid(table)
    THEN [rows |-> <<>>, txn |-> in_txn, status |-> STATUS_FULL, added |-> FALSE]
    ELSE LET r == apply_retention_policy(tbl[table], in_txn, fc, fr)
         IN  IF r.txn
             THEN [rows |-> r.rows, txn |-> FALSE,
                   status |-> STATUS_FAILURE, added |-> FALSE]
             ELSE IF ~HasInsertSql(table)
             THEN [rows |-> r.rows, txn |-> TRUE,
                   status |-> Raised, added |-> FALSE]
             ELSE [rows |-> Append(r.rows, NewRow(table, state, value, ts,
                                                  latitude, longitude)),
                   txn |-> FALSE,
                   status |-> IF fi THEN STATUS_FAILURE ELSE STATUS_SUCCESS,
                   added |-> TRUE]

\* mutant: the status of the retention step is looked at, and an insert
\* whose retention step failed returns that failure
insert_after_retention_ok(table, state, value, ts, latitude, longitude, fc, fr, fi) ==
    IF ~is_type_valid(table)
    THEN [rows |-> <<>>, txn |-> in_txn, status |-> STATUS_FULL, added |-> FALSE]
    ELSE LET r == apply_retention_policy(tbl[table], in_txn, fc, fr)
         IN  IF r.txn \/ r.ret # STATUS_SUCCESS
             THEN [rows |-> r.rows, txn |-> FALSE,
                   status |-> STATUS_FAILURE, added |-> FALSE]
             ELSE IF ~HasInsertSql(table)
             THEN [rows |-> r.rows, txn |-> TRUE,
                   status |-> Raised, added |-> FALSE]
             ELSE IF fi
             THEN [rows |-> r.rows, txn |-> FALSE,
                   status |-> STATUS_FAILURE, added |-> FALSE]
             ELSE [rows |-> Append(r.rows, NewRow(table, state, value, ts,
                                                  latitude, longitude)),
                   txn |-> FALSE, status |-> STATUS_SUCCESS, added |-> TRUE]

\* insert(): the rows of the table afterwards, the transaction flag, and
\* the status returned (Raised: the call ended in an uncaught exception)
insert(table, state, value, ts, latitude, longitude, fc, fr, fi) ==
    IF ~is_type_valid(table)
    THEN [rows |-> <<>>, txn |-> in_txn, status |-> STATUS_FULL, added |-> FALSE]
    ELSE LET r == apply_retention_policy(tbl[table], in_txn, fc, fr)
         IN  IF r.txn
             THEN \* "begin" raises OperationalError: rollback, failure
                  [rows |-> r.rows, txn |-> FALSE,
                   status |-> STATUS_FAILURE, added |-> FALSE]
             ELSE IF ~HasInsertSql(table)
             THEN \* sql is unbound: UnboundLocalError after "begin"
                  [rows |-> r.rows, txn |-> TRUE,
                   status |-> Raised, added |-> FALSE]
             ELSE IF fi
             THEN [rows |-> r.rows, txn |-> FALSE,
                   status |-> STATUS_FAILURE, added |-> FALSE]
             ELSE [rows |-> Append(r.rows, NewRow(table, state, value, ts,
                                                  latitude, longitude)),
                   txn |-> FALSE, status |-> STATUS_SUCCESS, added |-> TRUE]

\* last is history: what the call that returned last leaves to be compared
\* with.  A successful insert: its table and state argument.  A publish, for
\* as long as publish calls on one table follow each other with every update
\* succeeding and new_state other than unsent: the rows the sender has
\* accepted in those calls.  A crash between the two loops of a publish: the
\* rows the sender had accepted.  NoLast after anything else.
NoLast == [op |-> "none", table |-> "", status |-> "", arg |-> "",
           accepted |-> {}, between |-> FALSE]

\* the locals of publish_unsent_*: ptr is the part of the cursor not yet
\* read, update_db the keys of the dictionary, todo the keys the update loop
\* has not reached.  pre (the table as the call found it), calls (the sender
\* calls made, with their results), upd_fail, redo and prev are history.
PubNone == [table |-> "", new_state |-> "", pre |-> <<>>, ptr |-> <<>>,
            update_db |-> {}, todo |-> {}, status |-> "", calls |-> <<>>,
            upd_fail |-> FALSE, redo |-> {}, prev |-> {}]

\* the longitude an entry point passes to insert(): insert_location passes
\* its latitude argument as longitude
EntryLongitude(entry, latitude, longitude) ==
    IF entry = "insert_location" THEN latitude ELSE longitude

\* mutant: the DELETE statements of the retention step are run on every
\* table, not on the table of the insert alone
InsertEvictsAll(entry, tableArg, stateArg, value, ts, latitude, longitude, fc, fr, fi) ==
    LET table == EntryTable(entry, tableArg)
        state == EntryState(entry, stateArg)
        res   == insert(table, state, value, ts, latitude,
                        EntryLongitude(entry, latitude, longitude), fc, fr, fi)
    IN  /\ pc = "idle"
        /\ Inserted < MaxInserts
        /\ IF is_type_valid(table)
           THEN /\ tbl' = [u \in Tables |->
                            IF u = table THEN res.rows
                            ELSE apply_retention_policy(tbl[u], in_txn, fc, fr).rows]
                /\ seq' = [seq EXCEPT ![table] = IF res.added THEN @ + 1 ELSE @]
           ELSE UNCHANGED <<tbl, seq>>
        /\ in_txn' = res.txn
        /\ last' = NoLast
        /\ UNCHANGED <<cfgvars, now, pc, pub>>

Insert(entry, tableArg, stateArg, value, ts, latitude, longitude, fc, fr, fi) ==
    LET table == EntryTable(entry, tableArg)
        state == EntryState(entry, stateArg)
        res   == insert(table, state, value, ts, latitude,
                        EntryLongitude(entry, latitude, longitude), fc, fr, fi)
    IN  /\ pc = "idle"
        /\ Inserted < MaxInserts
        /\ IF is_type_valid(table)
           THEN /\ tbl' = [tbl EXCEPT ![table] = res.rows]
                /\ seq' = [seq EXCEPT ![table] = IF res.added THEN @ + 1 ELSE @]
           ELSE UNCHANGED <<tbl, seq>>
        /\ in_txn' = res.txn
        /\ last' = IF res.added
                   THEN [NoLast EXCEPT !.op = "insert", !.table = table,
                                       !.status = res.status, !.arg = stateArg]
                   ELSE NoLast
        /\ UNCHANGED <<cfgvars, now, pc, pub>>

\* ------------------------------------------------------------ update_state
\* mutant: the UPDATE without its WHERE clause
SetStatusAll(rows, idx, state) ==
    [j \in 1..Len(rows) |-> [rows[j] EXCEPT !.status = state]]

\* UPDATE table SET status = state WHERE idx = idx, in its own transaction
SetStatus(rows, idx, state) ==
    [j \in 1..Len(rows) |->
        IF rows[j].idx = idx THEN [rows[j] EXCEPT !.status = state] ELSE rows[j]]

\* mutant: no rollback in the except branch, so the UPDATE of a call whose
\* commit failed stays in the table, inside a transaction left open
update_state_no_rollback(rows, txn, idx, state, fault) ==
    [rows   |-> IF ~txn THEN SetStatus(rows, idx, state) ELSE rows,
     txn    |-> fault,
     status |-> TxnStatus(txn, fault)]

update_state(rows, txn, idx, state, fault) ==
    [rows   |-> IF Committed(txn, fault) THEN SetStatus(rows, idx, state) ELSE rows,
     txn    |-> FALSE,
     status |-> TxnStatus(txn, fault)]

UpdateState(table, idx, state, fault) ==
    LET res == update_state(tbl[table], in_txn, idx, state, fault)
    IN  /\ pc = "idle"
        /\ tbl' = [tbl EXCEPT ![table] = res.rows]
        /\ in_txn' = res.txn
        /\ last' = NoLast
        /\ UNCHANGED <<seq, cfgvars, now, pc, pub>>

\* ---------------------------------------------------- select_all_by_state
\* mutant: the WHERE clause left out (select_table's query)
select_any_state(rows, state) == rows

\* mutant: fetchone in place of the cursor, only the first matching row
select_all_by_state_first(rows, state) ==
    LET m == SelectSeq(rows, LAMBDA r : r.status = state)
    IN  IF m = <<>> THEN <<>> ELSE <<Head(m)>>

\* SELECT * FROM table WHERE status = ?: a scan of the table in rowid order
RECURSIVE select_all_by_state(_, _)
select_all_by_state(rows, state) ==
    IF rows = <<>> THEN <<>>
    ELSE IF Head(rows).status = state
         THEN <<Head(rows)>> \o select_all_by_state(Tail(rows), state)
         ELSE select_all_by_state(Tail(rows), state)

\* ---------------------------------------------------- data_smooth_on_change
field_list == {TELEMETRY_VALUE, LOCATION_LATITUDE}
FieldArgs  == field_list \cup {"bogus"}

\* get_table_info(table)[field_name]: the column exists in the table
HasColumn(table, field) ==
    \/ table = TELEMETRY /\ field = TELEMETRY_VALUE
    \/ table = LOCATION  /\ field = LOCATION_LATITUDE

\* the tables the model smooths: those of RowTables with a column of
\* field_list (on the others every call ends in KeyError before any update)
SmoothTables == {t \in RowTables : \E f \in field_list : HasColumn(t, f)}

\* the scan: prev is <<>> before the first row, <<v>> afterwards; "if last:"
\* is false for None and for 0
RECURSIVE SmoothScan(_, _, _)
SmoothScan(rows, prev, plus_minus) ==
    IF rows = <<>> THEN <<>>
    ELSE LET curr == Head(rows).value
             mark == /\ prev # <<>>
                     /\ prev[1] # 0
                     /\ \/ curr = prev[1]
                        \/ curr > prev[1] /\ curr - plus_minus <= prev[1]
                        \/ curr < prev[1] /\ curr + plus_minus >= prev[1]
         IN  (IF mark THEN <<Head(rows).idx>> ELSE <<>>)
                \o SmoothScan(Tail(rows), <<curr>>, plus_minus)

\* mutant: the update loop stops at the first update that fails
RECURSIVE UpdateEachStop(_, _, _, _, _)
UpdateEachStop(rows, txn, idxs, state, bad) ==
    IF idxs = <<>> THEN [rows |-> rows, txn |-> txn]
    ELSE LET r == update_state(rows, txn, Head(idxs), state, Head(idxs) \in bad)
         IN  IF r.status = STATUS_SUCCESS
             THEN UpdateEachStop(r.rows, r.txn, Tail(idxs), state, bad)
             ELSE [rows |-> r.rows, txn |-> r.txn]

\* update_state for each index of a list in turn; bad holds the indices
\* whose update the backend fails
RECURSIVE UpdateEach(_, _, _, _, _)
UpdateEach(rows, txn, idxs, state, bad) ==
    IF idxs = <<>> THEN [rows |-> rows, txn |-> txn]
    ELSE LET r == update_state(rows, txn, Head(idxs), state, Head(idxs) \in bad)
         IN  UpdateEach(r.rows, r.txn, Tail(idxs), state, bad)

SeqToSet(s) == {s[i] : i \in 1..Len(s)}

\* the list of marked indices; every one is updated to STATE_IGNORE (the
\* state argument is not used)
ignore_list(table, plus_minus) ==
    SmoothScan(select_all_by_state(tbl[table], STATE_UNSENT), <<>>, plus_minus)

\* mutant: the field name is looked at after the scan and the updates
data_smooth_on_change_late(table, field_name, plus_minus, state, bad) ==
    IF field_name \in field_list /\ ~HasColumn(table, field_name)
    THEN [rows |-> tbl[table], txn |-> in_txn]
    ELSE UpdateEach(tbl[table], in_txn, ignore_list(table, plus_minus),
                    STATE_IGNORE, bad)

\* what data_smooth_on_change returns: None for a field name that is not in
\* field_list, the list of marked indices otherwise; t[field_name] raises
\* KeyError for a field of field_list that is no column of the table
smooth_return(table, field_name, plus_minus) ==
    IF field_name \notin field_list THEN None
    ELSE IF ~HasColumn(table, field_name) THEN Raised
    ELSE ignore_list(table, plus_minus)

data_smooth_on_change(table, field_name, plus_minus, state, bad) ==
    IF field_name \notin field_list \/ ~HasColumn(table, field_name)
    THEN [rows |-> tbl[table], txn |-> in_txn]
    ELSE UpdateEach(tbl[table], in_txn, ignore_list(table, plus_minus),
                    STATE_IGNORE, bad)

Smooth(table, field_name, plus_minus, state, bad) ==
    LET res == data_smooth_on_change(table, field_name, plus_minus, state, bad)
    IN  /\ pc = "idle"
        /\ tbl' = [tbl EXCEPT ![table] = res.rows]
        /\ in_txn' = res.txn
        /\ last' = NoLast
        /\ UNCHANGED <<seq, cfgvars, now, pc, pub>>

\* --------------------------------------------------------- publish_unsent_*
Accepted(calls) == {calls[i].idx : i \in {j \in 1..Len(calls) : calls[j].ok}}

\* ptr = select_all_by_state(...); update_db = {}; status = STATUS_FAILURE
PublishBegin(table, new_state) ==
    LET ptr == select_all_by_state(tbl[table], STATE_UNSENT)
    IN  /\ pc = "idle"
        /\ pub' = [PubNone EXCEPT
                     !.table = table, !.new_state = new_state,
                     !.pre = tbl[table], !.ptr = ptr,
                     !.status = STATUS_FAILURE,
                     !.redo = IF last.op = "crash" /\ last.table = table
                                 /\ last.between
                              THEN last.accepted ELSE {},
                     !.prev = IF last.op = "publish" /\ last.table = table
                              THEN last.accepted ELSE {}]
        /\ pc' = IF ptr = <<>> THEN "ret" ELSE "send"
        /\ last' = NoLast
        /\ UNCHANGED <<tbl, seq, in_txn, cfgvars, now>>

\* mutant: no break after a failed sender call, the loop goes on to the
\* next row
PublishSendNoBreak(ok) ==
    LET t == Head(pub.ptr)
    IN  /\ pc = "send"
        /\ pub' = [pub EXCEPT
                     !.calls = Append(@, [idx |-> t.idx, ok |-> ok]),
                     !.status = IF ok THEN STATUS_SUCCESS ELSE STATUS_FAILURE,
                     !.ptr = Tail(@),
                     !.update_db = IF ok THEN @ \cup {t.idx} ELSE @,
                     !.todo = IF ok THEN @ \cup {t.idx} ELSE @]
        /\ pc' = IF Tail(pub.ptr) # <<>> THEN "send"
                 ELSE IF ok THEN "update" ELSE "ret"
        /\ UNCHANGED <<tbl, seq, in_txn, cfgvars, now, last>>

\* mutant: the row is marked STATE_SENT in the send loop, as soon as the
\* sender accepts it
PublishSendMarks(ok) ==
    LET t == Head(pub.ptr)
    IN  /\ pc = "send"
        /\ pub' = [pub EXCEPT
                     !.calls = Append(@, [idx |-> t.idx, ok |-> ok]),
                     !.status = IF ok THEN STATUS_SUCCESS ELSE STATUS_FAILURE,
                     !.ptr = IF ok THEN Tail(@) ELSE @,
                     !.update_db = IF ok THEN @ \cup {t.idx} ELSE @,
                     !.todo = IF ok THEN @ \cup {t.idx} ELSE @]
        /\ pc' = IF ~ok THEN "ret"
                 ELSE IF Tail(pub.ptr) = <<>> THEN "update" ELSE "send"
        /\ tbl' = IF ok
                  THEN [tbl EXCEPT ![pub.table] =
                           [j \in 1..Len(@) |->
                              IF @[j].idx = t.idx
                              THEN [@[j] EXCEPT !.status = STATE_SENT]
                              ELSE @[j]]]
                  ELSE tbl
        /\ UNCHANGED <<seq, in_txn, cfgvars, now, last>>

\* one pass of the for loop: the sender is called for the next row; a
\* failure breaks out of the loop, a success records the row in update_db.
\* After the loop the update loop runs only if status is STATUS_SUCCESS.
PublishSend(ok) ==
    LET t == Head(pub.ptr)
    IN  /\ pc = "send"
        /\ pub' = [pub EXCEPT
                     !.calls = Append(@, [idx |-> t.idx, ok |-> ok]),
                     !.status = IF ok THEN STATUS_SUCCESS ELSE STATUS_FAILURE,
                     !.ptr = IF ok THEN Tail(@) ELSE @,
                     !.update_db = IF ok THEN @ \cup {t.idx} ELSE @,
                     !.todo = IF ok THEN @ \cup {t.idx} ELSE @]
        /\ pc' = IF ~ok THEN "ret"
                 ELSE IF Tail(pub.ptr) = <<>> THEN "update" ELSE "send"
        /\ UNCHANGED <<tbl, seq, in_txn, cfgvars, now, last>>

\* one pass of the update loop: update_state for a key of update_db (the
\* order of a dictionary's keys is not fixed); its status is not looked at
PublishUpdate(k, fault) ==
    LET res == update_state(tbl[pub.table], in_txn, k, pub.new_state, fault)
    IN  /\ pc = "update"
        /\ k \in pub.todo
        /\ tbl' = [tbl EXCEPT ![pub.table] = res.rows]
        /\ in_txn' = res.txn
        /\ pub' = [pub EXCEPT !.todo = @ \ {k},
                              !.upd_fail = @ \/ res.status # STATUS_SUCCESS]
        /\ pc' = IF pub.todo = {k} THEN "ret" ELSE "update"
        /\ UNCHANGED <<seq, cfgvars, now, last>>

\* return status
PublishReturn ==
    /\ pc = "ret"
    /\ pc' = "idle"
    /\ pub' = PubNone
    /\ last' = LET acc == pub.prev \cup Accepted(pub.calls)
                    ok  == /\ ~pub.upd_fail
                           /\ pub.new_state # STATE_UNSENT
                IN  IF ok /\ acc # {}
                    THEN [NoLast EXCEPT !.op = "publish", !.table = pub.table,
                                        !.accepted = acc]
                    ELSE NoLast
    /\ UNCHANGED <<tbl, seq, in_txn, cfgvars, now>>

\* the process stops inside publish_unsent_* and the application starts
\* again on the same database file with the same settings: the locals are
\* gone, an open transaction is rolled back, committed rows stay
Crash ==
    /\ pc \in {"send", "update"}
    /\ pc' = "idle"
    /\ pub' = PubNone
    /\ in_txn' = FALSE
    /\ last' = IF pc = "update" /\ pub.todo = pub.update_db
                THEN [NoLast EXCEPT !.op = "crash", !.table = pub.table,
                                    !.accepted = Accepted(pub.calls),
                                    !.between = TRUE]
                ELSE NoLast
    /\ UNCHANGED <<tbl, seq, cfgvars, now>>

\* the record of a call: the entry point, its arguments, the backend failure
\* during it, the tables as it found them and what it returned
NoCall == [op |-> "none"]

\* ------------------------------------------------------------------- Init
\* the store after the constructor and the assignments an application makes
\* to the retention settings before its first call (the constructor's own
\* retain_max_entries and num_to_age are 1000000 and 20): STORAGE_LIMITED
\* with a small limit, evicting one row at a time or as many as the largest
\* limit (more than the table holds when the limit is smaller), or STORAGE_MAX_DAYS with one day as in src/demo, where
\* the count settings are not read
Init ==
    /\ tbl = [t \in Tables |-> <<>>]
    /\ seq = [t \in Tables |-> 0]
    /\ in_txn = FALSE
    /\ retention_drop_mode = STORAGE_AGE_OLDEST
    /\ \/ /\ retention_policy = STORAGE_LIMITED
          /\ retain_max_entries \in 1..MaxEntries
          /\ num_to_age \in {1, MaxEntries}
          /\ max_days_to_retain = 31
       \/ /\ retention_policy = STORAGE_MAX_DAYS
          /\ retain_max_entries = MaxEntries
          /\ num_to_age = 1
          /\ max_days_to_retain = 1
    /\ now = 0
    /\ pc = "idle"
    /\ pub = PubNone
    /\ last = NoLast
    /\ call = NoCall

\* the calls of the application; InsF and F are the backend failures that
\* can happen (InsertFaults and BOOLEAN, or none)
NextWith(InsF, F) ==
    \/ \E c \in InsertCalls, v \in Values, ts \in TsArgs, f \in InsF :
          /\ Insert(c[1], c[2], c[3], v, ts, None, None,
                    f = "count", f = "evict", f = "insert")
          /\ UNCHANGED call
    \/ \E t \in RowTables, s \in UpdateArgs, f \in F :
          \E i \in IdxOf(tbl[t]) : UpdateState(t, i, s, f) /\ UNCHANGED call
    \/ \E t \in SmoothTables, fn \in FieldArgs, pm \in Thresholds :
          \E bad \in {{}} \cup {{i} : i \in {j \in SeqToSet(ignore_list(t, pm)) :
                                                TRUE \in F}} :
             Smooth(t, fn, pm, STATE_IGNORE, bad) /\ UNCHANGED call
    \/ \E t \in PublishTables \cap RowTables, s \in PublishArgs :
          PublishBegin(t, s) /\ UNCHANGED call
    \/ \E ok \in BOOLEAN : PublishSend(ok) /\ UNCHANGED call
    \/ \E k \in pub.todo, f \in F : PublishUpdate(k, f) /\ UNCHANGED call
    \/ PublishReturn /\ UNCHANGED call
    \/ Crash /\ UNCHANGED call

\* the store on a backend that can fail any statement
Next == NextWith(InsertFaults, BOOLEAN)

Spec == Init /\ [][Next]_vars

\* the store on a backend that never fails
NextReliable == NextWith({"none"}, {FALSE})

SpecReliable == Init /\ [][NextReliable]_vars

\* ------------------------------------------------------------ select_table
\* SELECT * FROM table: the rows in rowid order; None for an unknown table
select_table(table) == IF is_type_valid(table) THEN tbl[table] ELSE None

\* ------------------------------------------------- one call under the lens
\* The specifications below let the application build a store with calls
\* that are not recorded and then make one call whose arguments, backend
\* failure, result and the tables it found are kept in the variable call.
Unrecorded == call.op = "none" /\ call' = NoCall

\* the insert calls that build the store: one row into a table that takes
\* rows, or the insert into ATTRIBUTE
BuildInserts ==
    {<<"insert", t, STATE_UNSENT>> : t \in {TELEMETRY, LOCATION, ALARM}} \cup
    {<<"insert", ATTRIBUTE, Omitted>>}

\* the insert calls recorded: every entry point, with and without a state
InsertEntries ==
    {<<"insert", t>> : t \in Tables \cup {"bogus"}} \cup
    {<<"insert_telemetry", TELEMETRY>>, <<"insert_location", LOCATION>>,
     <<"insert_alarm", ALARM>>}

RecordedStates == {Omitted, STATE_UNSENT, STATE_RETAIN}

\* the value and the coordinates a caller passes with a row of a kind
Latitudes  == {1}
Longitudes == {1, 2}
ValueArgs(table) == IF table = TELEMETRY THEN Values ELSE {None}
CoordArgs(table) ==
    IF table = LOCATION THEN Latitudes \X Longitudes ELSE {<<None, None>>}

InsertRecord(entry, tableArg, stateArg, value, ts, latitude, longitude, f) ==
    LET table == EntryTable(entry, tableArg)
        res   == insert(table, EntryState(entry, stateArg), value, ts, latitude,
                        EntryLongitude(entry, latitude, longitude),
                        f = "count", f = "evict", f = "insert")
    IN  [op |-> "insert", entry |-> entry, table |-> table, state |-> stateArg,
         value |-> value, ts |-> ts, latitude |-> latitude,
         longitude |-> longitude, fault |-> f, pre |-> tbl, txn |-> in_txn,
         status |-> res.status]

\* a store built by inserts, then one recorded insert
NextInsert ==
    \/ \E c \in BuildInserts, ts \in TsArgs :
          \E v \in ValueArgs(c[2]), ll \in CoordArgs(c[2]) :
             /\ Unrecorded
             /\ Insert(c[1], c[2], c[3], v, ts, ll[1], ll[2], FALSE, FALSE, FALSE)
    \/ \E e \in InsertEntries, s \in RecordedStates, ts \in TsArgs,
          f \in {"none", "insert"} :
          \E v \in ValueArgs(e[2]), ll \in CoordArgs(e[2]) :
             /\ call.op = "none"
             /\ Insert(e[1], e[2], s, v, ts, ll[1], ll[2],
                       f = "count", f = "evict", f = "insert")
             /\ call' = InsertRecord(e[1], e[2], s, v, ts, ll[1], ll[2], f)

SpecInsert == Init /\ [][NextInsert]_vars

\* the store as the constructor leaves it
InitStore ==
    /\ tbl = [t \in Tables |-> <<>>]
    /\ seq = [t \in Tables |-> 0]
    /\ in_txn = FALSE
    /\ retention_policy = STORAGE_LIMITED
    /\ retention_drop_mode = STORAGE_AGE_OLDEST
    /\ retain_max_entries = STORAGE_LIMITED_MAX
    /\ num_to_age = STORAGE_LIMITED_NUM_TO_AGE
    /\ max_days_to_retain = 31
    /\ now = 0
    /\ pc = "idle"
    /\ pub = PubNone
    /\ last = NoLast

InitDefault == InitStore /\ call = NoCall

\* the telemetry values, thresholds and mark states of the smoothing calls
SmoothValues     == {-1, 0, 1}
SmoothThresholds == {0, 1}
MarkStates == {STATE_IGNORE, STATE_SENT, STATE_RETAIN, STATE_REMOVE,
               STATE_PUBLISHED}

SmoothRecord(table, field_name, plus_minus, state, bad) ==
    [op |-> "smooth", table |-> table, field |-> field_name,
     plus_minus |-> plus_minus, state |-> state, bad |-> bad,
     pre |-> tbl, txn |-> in_txn,
     ret |-> smooth_return(table, field_name, plus_minus)]

\* a telemetry table built by inserts (and the insert into ATTRIBUTE, which
\* leaves a transaction open), then one recorded data_smooth_on_change
NextSmooth ==
    \/ \E s \in {STATE_UNSENT, STATE_SENT}, v \in SmoothValues :
          /\ Unrecorded
          /\ Insert("insert", TELEMETRY, s, v, NoTs, None, None,
                    FALSE, FALSE, FALSE)
    \/ /\ Unrecorded
       /\ ~in_txn
       /\ Insert("insert", ATTRIBUTE, Omitted, None, NoTs, None, None,
                 FALSE, FALSE, FALSE)
    \/ \E fn \in FieldArgs, pm \in SmoothThresholds, st \in MarkStates :
          \E bad \in {{}} \cup {{i} : i \in SeqToSet(ignore_list(TELEMETRY, pm))} :
             /\ call.op = "none"
             /\ Smooth(TELEMETRY, fn, pm, st, bad)
             /\ call' = SmoothRecord(TELEMETRY, fn, pm, st, bad)

SpecSmooth == InitDefault /\ [][NextSmooth]_vars

\* the recorded update_state call: its arguments, the backend failure, the
\* tables and the connection it found, its status, how many times it has
\* been made (n), the tables after the first time (once) and the status of
\* the second time (status2)
UpdateRecord(table, idx, state, fault) ==
    LET res == update_state(tbl[table], in_txn, idx, state, fault)
    IN  [op |-> "update_state", table |-> table, idx |-> idx,
         state |-> state, fault |-> fault,
         pre |-> tbl, txn |-> in_txn, status |-> res.status,
         n |-> 1, once |-> [tbl EXCEPT ![table] = res.rows], status2 |-> ""]

\* the same call made again
UpdateAgain ==
    LET res == update_state(tbl[call.table], in_txn, call.idx, call.state, FALSE)
    IN  [call EXCEPT !.n = 2, !.status2 = res.status]

\* tables built by inserts (and the insert into ATTRIBUTE, which leaves a
\* transaction open), then one recorded update_state on an existing row,
\* which, if the backend did not fail it, may be made a second time
NextUpdate ==
    \/ \E t \in RowTables, s \in {STATE_UNSENT, STATE_SENT} :
          /\ Unrecorded
          /\ Insert("insert", t, s, 1, NoTs, None, None, FALSE, FALSE, FALSE)
    \/ /\ Unrecorded
       /\ ~in_txn
       /\ Insert("insert", ATTRIBUTE, Omitted, None, NoTs, None, None,
                 FALSE, FALSE, FALSE)
    \/ \E t \in RowTables, s \in States, f \in BOOLEAN :
          \E i \in IdxOf(tbl[t]) :
             /\ call.op = "none"
             /\ UpdateState(t, i, s, f)
             /\ call' = UpdateRecord(t, i, s, f)
    \/ /\ call.op = "update_state"
       /\ call.n = 1
       /\ ~call.fault
       /\ UpdateState(call.table, call.idx, call.state, FALSE)
       /\ call' = UpdateAgain

SpecUpdate == InitDefault /\ [][NextUpdate]_vars

\* ------------------------------------------------------------------ remove
\* DELETE FROM table WHERE field_name = field_value
DeleteWhere(rows, field_name, field_value) ==
    SelectSeq(rows, LAMBDA r : r[field_name] # field_value)

\* remove(): begin, the DELETE and commit in try, rollback in except
remove(rows, txn, field_name, field_value, fault) ==
    [rows   |-> IF Committed(txn, fault)
                THEN DeleteWhere(rows, field_name, field_value) ELSE rows,
     txn    |-> FALSE,
     status |-> TxnStatus(txn, fault)]

Remove(table, field_name, field_value, fault) ==
    LET res == remove(tbl[table], in_txn, field_name, field_value, fault)
    IN  /\ pc = "idle"
        /\ tbl' = [tbl EXCEPT ![table] = res.rows]
        /\ in_txn' = res.txn
        /\ last' = NoLast
        /\ UNCHANGED <<seq, cfgvars, now, pc, pub>>

\* ------------------------------------------------- the indices of a table
\* the indices that have been seen in a table so far (history, kept in call)
EverAssigned(t) == IF call.op = "index" THEN call.ever[t] ELSE {}

IndexRecord ==
    [op |-> "index",
     ever |-> [t \in Tables |-> EverAssigned(t) \cup IdxOf(tbl'[t])]]

\* inserts, with and without backend failures and evictions, and removes of
\* single rows, in any order
NextIndex ==
    \/ \E t \in RowTables, ts \in TsArgs, f \in {"none", "evict", "insert"} :
          /\ Insert("insert", t, STATE_UNSENT, 1, ts, None, None,
                    FALSE, f = "evict", f = "insert")
          /\ call' = IndexRecord
    \/ /\ ~in_txn
       /\ Insert("insert", ATTRIBUTE, Omitted, None, NoTs, None, None,
                 FALSE, FALSE, FALSE)
       /\ call' = IndexRecord
    \/ \E t \in RowTables, f \in BOOLEAN :
          \E i \in IdxOf(tbl[t]) :
             /\ Remove(t, "idx", i, f)
             /\ call' = IndexRecord

SpecIndex == Init /\ [][NextIndex]_vars

\* ------------------------------------------------ what the calls return
\* where the backend fails during a call: nowhere, at "begin", at the data
\* statement (or the query), or at "commit"
FaultAt == {"none", "begin", "statement", "commit"}

\* begin / statement / commit in try, rollback in except, with the backend
\* failing at `at`.  With a transaction open "begin" raises and the rollback
\* ends that transaction.  With none open, a failure of the statement or of
\* the commit is rolled back, but after a failure of "begin" there is no
\* transaction and the "rollback" in the except branch raises in its turn.
TxnReturn(txn, at) ==
    IF txn THEN STATUS_FAILURE
    ELSE IF at = "begin" THEN Raised
    ELSE IF at = "none" THEN STATUS_SUCCESS
    ELSE STATUS_FAILURE

\* get_row_count: count is unbound after the branch for an unknown table
get_row_count_return(table, fault) ==
    IF ~is_type_valid(table) THEN Raised
    ELSE get_row_count(tbl[table], fault)

\* select_all_by_state: None for an unknown table and for a failed query,
\* else the cursor, read to the end
select_all_by_state_return(table, state, fault) ==
    IF ~is_type_valid(table) \/ fault THEN None
    ELSE select_all_by_state(tbl[table], state)

select_table_return(table, fault) ==
    IF is_type_valid(table) /\ fault THEN None ELSE select_table(table)

\* update_state and remove do not look at the table name: on an unknown
\* table the statement fails
update_state_return(table, at) ==
    IF is_type_valid(table) THEN TxnReturn(in_txn, at)
    ELSE IF in_txn \/ at # "begin" THEN STATUS_FAILURE ELSE Raised

remove_return(table, at) == update_state_return(table, at)

custom_sql_command_return(at) == TxnReturn(in_txn, at)

\* insert with the backend failing in the transaction of the INSERT
insert_return(table, state, value, at) ==
    LET res == insert(table, state, value, NoTs, None, None,
                      FALSE, FALSE, at # "none")
        r   == apply_retention_policy(tbl[table], in_txn, FALSE, FALSE)
    IN  IF is_type_valid(table) /\ HasInsertSql(table) /\ at = "begin" /\ ~r.txn
        THEN Raised
        ELSE res.status

\* a call that reads: nothing changes
Query ==
    /\ pc = "idle"
    /\ UNCHANGED <<tbl, seq, in_txn, cfgvars, now, pc, pub, last>>

\* a transaction on a table that may not exist: the rows of a table of
\* table_list as the statement leaves them, and no transaction afterwards
Transact(table, rows) ==
    /\ pc = "idle"
    /\ tbl' = IF is_type_valid(table) THEN [tbl EXCEPT ![table] = rows] ELSE tbl
    /\ in_txn' = FALSE
    /\ last' = NoLast
    /\ UNCHANGED <<seq, cfgvars, now, pc, pub>>

CallRecord(op, table, arg, at, ret) ==
    [op |-> op, table |-> table, arg |-> arg, at |-> at,
     pre |-> tbl, txn |-> in_txn, ret |-> ret]

\* the tables a recorded call names: one that holds rows, one that is
\* empty, and a name that is not in table_list
CallTables == {TELEMETRY, LOCATION, "bogus"}

\* the rows a statement with WHERE idx = i touches, in a table that may not
\* exist
RowsOf(table) == IF is_type_valid(table) THEN tbl[table] ELSE <<>>

\* a store built by inserts (and the insert into ATTRIBUTE, which leaves a
\* transaction open), then one recorded call
NextCalls ==
    \/ \E s \in {STATE_UNSENT, STATE_SENT} :
          /\ Unrecorded
          /\ Insert("insert", TELEMETRY, s, 1, NoTs, None, None,
                    FALSE, FALSE, FALSE)
    \/ /\ Unrecorded
       /\ ~in_txn
       /\ Insert("insert", ATTRIBUTE, Omitted, None, NoTs, None, None,
                 FALSE, FALSE, FALSE)
    \/ \E t \in CallTables, at \in FaultAt :
          /\ call.op = "none"
          /\ Insert("insert", t, STATE_UNSENT, 1, NoTs, None, None,
                    FALSE, FALSE, at # "none")
          /\ call' = CallRecord("insert", t, STATE_UNSENT, at,
                                insert_return(t, STATE_UNSENT, 1, at))
    \/ \E t \in CallTables, s \in {STATE_UNSENT, STATE_SENT, STATE_RETAIN},
          f \in BOOLEAN :
          /\ call.op = "none"
          /\ Query
          /\ call' = CallRecord("select_all_by_state", t, s,
                                IF f THEN "statement" ELSE "none",
                                select_all_by_state_return(t, s, f))
    \/ \E t \in CallTables, f \in BOOLEAN :
          /\ call.op = "none"
          /\ Query
          /\ call' = CallRecord("select_table", t, None,
                                IF f THEN "statement" ELSE "none",
                                select_table_return(t, f))
    \/ \E t \in CallTables, f \in BOOLEAN :
          /\ call.op = "none"
          /\ Query
          /\ call' = CallRecord("get_row_count", t, None,
                                IF f THEN "statement" ELSE "none",
                                get_row_count_return(t, f))
    \/ \E t \in CallTables, s \in {STATE_SENT}, at \in FaultAt :
          \E i \in IdxOf(RowsOf(t)) \cup {1} :
             /\ call.op = "none"
             /\ Transact(t, update_state(RowsOf(t), in_txn, i, s,
                                         at # "none").rows)
             /\ call' = CallRecord("update_state", t, <<i, s>>, at,
                                   update_state_return(t, at))
    \/ \E t \in CallTables, at \in FaultAt :
          \E i \in IdxOf(RowsOf(t)) \cup {1} :
             /\ call.op = "none"
             /\ Transact(t, remove(RowsOf(t), in_txn, "idx", i,
                                   at # "none").rows)
             /\ call' = CallRecord("remove", t, <<"idx", i>>, at,
                                   remove_return(t, at))
    \/ \E at \in FaultAt :
          \* custom_sql_command with the DELETE of the retention step
          /\ call.op = "none"
          /\ Transact(TELEMETRY,
                      IF Committed(in_txn, at # "none")
                      THEN DeleteOldest(tbl[TELEMETRY], 1) ELSE tbl[TELEMETRY])
          /\ call' = CallRecord("custom_sql_command", TELEMETRY, 1, at,
                                custom_sql_command_return(at))
    \/ \E t \in CallTables, fn \in FieldArgs :
          /\ call.op = "none"
          /\ IF is_type_valid(t)
             THEN Smooth(t, fn, 0, STATE_IGNORE, {})
             ELSE Query
          /\ call' = CallRecord("data_smooth_on_change", t, fn, "none",
                                smooth_return(t, fn, 0))

SpecCalls == InitDefault /\ [][NextCalls]_vars

\* ------------------------------------------------------------- __init__
\* the key arguments of the constructor: the default, an empty string, a key
Keys == {None, "", "secret"}

\* mutant: without pysqlcipher the constructor falls back to sqlite3
open_fallback(key, secure_db_support) ==
    IF ~Falsy(key) /\ secure_db_support
    THEN [conn |-> "sqlcipher", file |-> "encrypted", raised |-> FALSE]
    ELSE [conn |-> "sqlite3", file |-> "plaintext", raised |-> FALSE]

\* the connection the constructor opens for key, the database file it
\* leaves where there was none, and whether it raises.  With a key and
\* without pysqlcipher self.conn is None and self.conn.cursor() raises
\* AttributeError before any statement.
open(key, secure_db_support) ==
    IF ~Falsy(key)
    THEN IF secure_db_support
         THEN [conn |-> "sqlcipher", file |-> "encrypted", raised |-> FALSE]
         ELSE [conn |-> None, file |-> "absent", raised |-> TRUE]
    ELSE [conn |-> "sqlite3", file |-> "plaintext", raised |-> FALSE]

OpenRecord(key, secure_db_support) ==
    LET res == open(key, secure_db_support)
    IN  [op |-> "open", key |-> key, secure |-> secure_db_support,
         conn |-> res.conn, file |-> res.file, raised |-> res.raised]

\* the store after SmartDataStorage(db_name, key=key) on a new file, with
\* and without pysqlcipher installed
InitOpen ==
    /\ InitStore
    /\ \E key \in Keys, secure_db_support \in BOOLEAN :
          call = OpenRecord(key, secure_db_support)

\* the calls an application can make on the object the constructor
\* returned: there is none when the constructor raised
NextOpen ==
    \/ \E t \in RowTables, s \in {STATE_UNSENT, STATE_SENT} :
          /\ ~call.raised
          /\ Insert("insert", t, s, 1, NoTs, None, None, FALSE, FALSE, FALSE)
          /\ UNCHANGED call
    \/ \E t \in RowTables :
          \E i \in IdxOf(tbl[t]) :
             /\ ~call.raised
             /\ UpdateState(t, i, STATE_SENT, FALSE)
             /\ UNCHANGED call
    \/ \E t \in RowTables :
          \E i \in IdxOf(tbl[t]) :
             /\ ~call.raised
             /\ Remove(t, "idx", i, FALSE)
             /\ UNCHANGED call

SpecOpen == InitOpen /\ [][NextOpen]_vars

\* ------------------------------------------------ the retention step
\* the store after the constructor and the assignments an application makes
\* to the retention settings: STORAGE_LIMITED with a small limit in either
\* drop mode, or STORAGE_MAX_DAYS with one day
InitRetention ==
    /\ tbl = [t \in Tables |-> <<>>]
    /\ seq = [t \in Tables |-> 0]
    /\ in_txn = FALSE
    /\ \/ /\ retention_policy = STORAGE_LIMITED
          /\ retention_drop_mode \in {STORAGE_AGE_OLDEST, STORAGE_KEEP_OLDEST}
          /\ retain_max_entries \in 1..MaxEntries
          /\ num_to_age = 1
          /\ max_days_to_retain = 31
       \/ /\ retention_policy = STORAGE_MAX_DAYS
          /\ retention_drop_mode = STORAGE_AGE_OLDEST
          /\ retain_max_entries = MaxEntries
          /\ num_to_age = 1
          /\ max_days_to_retain = 1
    /\ now = 0
    /\ pc = "idle"
    /\ pub = PubNone
    /\ last = NoLast
    /\ call = NoCall

\* a store built by inserts (and the insert into ATTRIBUTE, which leaves a
\* transaction open), then one recorded insert during which the backend
\* fails nowhere, in the eviction command, or in the INSERT
NextRetention ==
    \/ \E t \in RowTables, ts \in TsArgs :
          /\ Unrecorded
          /\ Insert("insert", t, STATE_SENT, 1, ts, None, None,
                    FALSE, FALSE, FALSE)
    \/ /\ Unrecorded
       /\ ~in_txn
       /\ Insert("insert", ATTRIBUTE, Omitted, None, NoTs, None, None,
                 FALSE, FALSE, FALSE)
    \/ \E t \in RowTables, ts \in TsArgs, f \in {"none", "evict", "insert"} :
          /\ call.op = "none"
          /\ Insert("insert", t, STATE_UNSENT, 1, ts, None, None,
                    FALSE, f = "evict", f = "insert")
          /\ call' = InsertRecord("insert", t, STATE_UNSENT, 1, ts,
                                  None, None, f)

SpecRetention == InitRetention /\ [][NextRetention]_vars

\* ------------------------------------------------ publishing until drained
\* The application fills the telemetry table (phase build), then only calls
\* publish_unsent_telemetry, again and again (phase drain).  The sender may
\* fail any call until it has healed; afterwards it accepts every row.
DrainStart == [op |-> "drain", phase |-> "build", healed |-> FALSE]

InitDrain == InitStore /\ call = DrainStart

DrainBuild ==
    /\ call.phase = "build"
    /\ UNCHANGED call
    /\ \/ \E s \in {STATE_UNSENT, STATE_SENT} :
             Insert("insert", TELEMETRY, s, 1, NoTs, None, None,
                    FALSE, FALSE, FALSE)
       \/ /\ ~in_txn
          /\ Insert("insert", ATTRIBUTE, Omitted, None, NoTs, None, None,
                    FALSE, FALSE, FALSE)

\* the last insert has been made
DrainBegin ==
    /\ call.phase = "build"
    /\ call' = [call EXCEPT !.phase = "drain"]
    /\ UNCHANGED <<tbl, seq, in_txn, cfgvars, now, pc, pub, last>>

\* from here on the sender succeeds
SenderHeals ==
    /\ call.phase = "drain"
    /\ ~call.healed
    /\ call' = [call EXCEPT !.healed = TRUE]
    /\ UNCHANGED <<tbl, seq, in_txn, cfgvars, now, pc, pub, last>>

\* the next step of publish_unsent_telemetry(client, STATE_SENT), or the
\* next call of it, on a backend that does not fail
DrainPublish ==
    /\ call.phase = "drain"
    /\ UNCHANGED call
    /\ \/ PublishBegin(TELEMETRY, STATE_SENT)
       \/ \E ok \in {TRUE} \cup {b \in {FALSE} : ~call.healed} : PublishSend(ok)
       \/ \E k \in pub.todo : PublishUpdate(k, FALSE)
       \/ PublishReturn

NextDrain == DrainBuild \/ DrainBegin \/ SenderHeals \/ DrainPublish

\* the application keeps calling publish_unsent_telemetry and each call runs
\* to its end; the sender heals at some point
SpecDrain ==
    /\ InitDrain
    /\ [][NextDrain]_vars
    /\ WF_vars(DrainPublish)
    /\ WF_vars(SenderHeals)

\* ------------------------------------------------------ the life of a row
\* The states an application gives a row of the telemetry table: it inserts
\* rows as unsent or already marked for removal, sets states with
\* update_state, filters, publishes with new_state sent or remove, and
\* deletes the rows marked for removal with remove("status", STATE_REMOVE).
LifeStates == {STATE_UNSENT, STATE_SENT, STATE_REMOVE}

NextLife ==
    \/ \E s \in {STATE_UNSENT, STATE_REMOVE}, v \in Values :
          /\ Insert("insert", TELEMETRY, s, v, NoTs, None, None,
                    FALSE, FALSE, FALSE)
          /\ UNCHANGED call
    \/ \E s \in LifeStates :
          \E i \in IdxOf(tbl[TELEMETRY]) :
             UpdateState(TELEMETRY, i, s, FALSE) /\ UNCHANGED call
    \/ \E pm \in Thresholds :
          /\ Smooth(TELEMETRY, TELEMETRY_VALUE, pm, STATE_IGNORE, {})
          /\ UNCHANGED call
    \/ \E s \in {STATE_SENT, STATE_REMOVE} :
          PublishBegin(TELEMETRY, s) /\ UNCHANGED call
    \/ \E ok \in BOOLEAN : PublishSend(ok) /\ UNCHANGED call
    \/ \E k \in pub.todo : PublishUpdate(k, FALSE) /\ UNCHANGED call
    \/ PublishReturn /\ UNCHANGED call
    \/ Remove(TELEMETRY, "status", STATE_REMOVE, FALSE) /\ UNCHANGED call

SpecLife == InitDefault /\ [][NextLife]_vars

\* ------------------------------------------- what the sender is handed
\* str(idx) for the indices of the model: the decimal digits of the number
Digits == <<"0", "1", "2", "3", "4", "5", "6", "7", "8", "9">>

RECURSIVE str(_)
str(n) == IF n < Len(Digits) THEN Digits[n + 1]
          ELSE str(n \div Len(Digits)) \o Digits[(n % Len(Digits)) + 1]

\* the row of the telemetry table as the cursor returns it: the columns in
\* the order of CREATE TABLE, filled by INSERT INTO telemetry
\* VALUES(null, table, name, value, msg, ts, "desc", state); msg is the
\* default ""
TelemetryTuple(row, name) ==
    <<row.idx, TELEMETRY, name, row.value, "", row.ts, "desc", row.status>>

\* mutant: the name read from the column before it (data_type) and the
\* correlation id made from the value
telemetry_publish_args_shifted(t) ==
    [name |-> t[2], value |-> t[4], corr_id |-> str(t[4]), timestamp |-> t[6]]

\* the arguments of client.telemetry_publish(name, value, corr_id=str(idx),
\* timestamp=ts) for the tuple t: idx = t[0], name = t[2], value = t[3],
\* ts = t[5] (tuples are numbered from 1 here)
telemetry_publish_args(t) ==
    [name |-> t[3], value |-> t[4], corr_id |-> str(t[1]), timestamp |-> t[6]]

\* The telemetry table with its name column (call.name, by idx) and the
\* argument lists the sender has received in the running publish call
\* (call.sent).
Names         == {"temp", "hum"}
PayloadValues == {1, 2}
PayloadTs     == {NoTs, <<now + 1>>}
PayloadStart  == [op |-> "payload", name |-> <<>>, sent |-> <<>>]

InitPayload == InitStore /\ call = PayloadStart

NextPayload ==
    \/ \E n \in Names, v \in PayloadValues, ts \in PayloadTs :
          /\ Insert("insert", TELEMETRY, STATE_UNSENT, v, ts, None, None,
                    FALSE, FALSE, FALSE)
          /\ call' = [call EXCEPT !.name = Append(@, n)]
    \/ /\ PublishBegin(TELEMETRY, STATE_SENT)
       /\ call' = [call EXCEPT !.sent = <<>>]
    \/ \E ok \in BOOLEAN :
          /\ PublishSend(ok)
          /\ call' = [call EXCEPT !.sent =
                Append(@, telemetry_publish_args(
                            TelemetryTuple(Head(pub.ptr),
                                           call.name[Head(pub.ptr).idx])))]
    \/ \E k \in pub.todo : PublishUpdate(k, FALSE) /\ UNCHANGED call
    \/ PublishReturn /\ UNCHANGED call

SpecPayload == InitPayload /\ [][NextPayload]_vars

\* --------------------------------- what the filter and a publish call touch
\* the recorded publish_unsent_* call: its table, its new_state, the tables
\* and the connection it found
PublishRecord(table, new_state) ==
    [op |-> "publish", table |-> table, state |-> new_state,
     pre |-> tbl, txn |-> in_txn]

\* telemetry and alarm rows built by inserts (and the insert into ATTRIBUTE,
\* which leaves a transaction open), then one recorded
\* data_smooth_on_change or one recorded publish call followed to its end
\* on a backend that can fail an update
NextFrame ==
    \/ \E t \in RowTables, s \in {STATE_UNSENT, STATE_SENT}, v \in Values :
          /\ Unrecorded
          /\ Insert("insert", t, s, v, NoTs, None, None, FALSE, FALSE, FALSE)
    \/ /\ Unrecorded
       /\ ~in_txn
       /\ Insert("insert", ATTRIBUTE, Omitted, None, NoTs, None, None,
                 FALSE, FALSE, FALSE)
    \/ \E t \in SmoothTables, fn \in FieldArgs, pm \in Thresholds :
          \E bad \in {{}} \cup {{i} : i \in SeqToSet(ignore_list(t, pm))} :
             /\ call.op = "none"
             /\ Smooth(t, fn, pm, STATE_IGNORE, bad)
             /\ call' = SmoothRecord(t, fn, pm, STATE_IGNORE, bad)
    \/ \E t \in PublishTables \cap RowTables, s \in {STATE_SENT, STATE_REMOVE} :
          /\ call.op = "none"
          /\ PublishBegin(t, s)
          /\ call' = PublishRecord(t, s)
    \/ \E ok \in BOOLEAN : PublishSend(ok) /\ UNCHANGED call
    \/ \E k \in pub.todo, f \in BOOLEAN : PublishUpdate(k, f) /\ UNCHANGED call
    \/ PublishReturn /\ UNCHANGED call

SpecFrame == InitDefault /\ [][NextFrame]_vars

\* ------------------------------------------------ the filter, then publish
\* the recorded data_smooth_on_change call on the telemetry value and what
\* follows it: the list it returned (ret), the tables and the connection it
\* found, the telemetry rows it left (post), the indices handed to the
\* sender since (handed), those handed by the first publish call after it
\* (first), whether that call has ended (done) and whether the sender
\* accepted every row of it (ok)
FilterRecord(plus_minus, rows) ==
    [op |-> "filter", plus_minus |-> plus_minus,
     ret |-> smooth_return(TELEMETRY, TELEMETRY_VALUE, plus_minus),
     pre |-> tbl, txn |-> in_txn, post |-> rows,
     handed |-> {}, first |-> {}, done |-> FALSE, ok |-> TRUE]

\* telemetry rows built by inserts (and the insert into ATTRIBUTE, which
\* leaves a transaction open), one data_smooth_on_change, then publish
\* calls, on a backend that never fails; the sender may refuse a row
NextFilter ==
    \/ \E s \in {STATE_UNSENT, STATE_SENT}, v \in SmoothValues :
          /\ Unrecorded
          /\ Insert("insert", TELEMETRY, s, v, NoTs, None, None,
                    FALSE, FALSE, FALSE)
    \/ /\ Unrecorded
       /\ ~in_txn
       /\ Insert("insert", ATTRIBUTE, Omitted, None, NoTs, None, None,
                 FALSE, FALSE, FALSE)
    \/ \E pm \in SmoothThresholds :
          /\ call.op = "none"
          /\ Smooth(TELEMETRY, TELEMETRY_VALUE, pm, STATE_IGNORE, {})
          /\ call' = FilterRecord(pm, tbl'[TELEMETRY])
    \/ /\ call.op = "filter"
       /\ PublishBegin(TELEMETRY, STATE_SENT)
       /\ UNCHANGED call
    \/ \E ok \in BOOLEAN :
          /\ PublishSend(ok)
          /\ call' = [call EXCEPT
                !.handed = @ \cup {Head(pub.ptr).idx},
                !.first = IF call.done THEN @ ELSE @ \cup {Head(pub.ptr).idx},
                !.ok = IF call.done THEN @ ELSE @ /\ ok]
    \/ \E k \in pub.todo : PublishUpdate(k, FALSE) /\ UNCHANGED call
    \/ PublishReturn /\ call' = [call EXCEPT !.done = TRUE]

SpecFilter == InitDefault /\ [][NextFilter]_vars

\* ----------------------------------------------- eviction on a live store
\* the store of an application that has set STORAGE_LIMITED /
\* STORAGE_AGE_OLDEST with a small limit and batch; call keeps the indices
\* handed to the sender so far (handed), the indices of the rows deleted
\* while unsent and never handed over (lost), and the last insert into the
\* telemetry table (ins): the row count c, retain_max_entries and
\* num_to_age it found, the transaction flag, and its status
NoInsert == [c |-> 0, max |-> 0, B |-> 0, txn |-> FALSE, status |-> None]

EvictStart == [op |-> "evict", handed |-> {}, lost |-> {}, ins |-> NoInsert]

InitEvict ==
    /\ tbl = [t \in Tables |-> <<>>]
    /\ seq = [t \in Tables |-> 0]
    /\ in_txn = FALSE
    /\ retention_policy = STORAGE_LIMITED
    /\ retention_drop_mode = STORAGE_AGE_OLDEST
    /\ retain_max_entries \in 1..MaxEntries
    /\ num_to_age \in 0..MaxEntries
    /\ max_days_to_retain = 31
    /\ now = 0
    /\ pc = "idle"
    /\ pub = PubNone
    /\ last = NoLast
    /\ call = EvictStart

\* the application lowers retain_max_entries on the live instance
LowerMax(n) ==
    /\ pc = "idle"
    /\ n < retain_max_entries
    /\ retain_max_entries' = n
    /\ UNCHANGED <<tbl, seq, in_txn, retention_policy, retention_drop_mode,
                   num_to_age, max_days_to_retain, now, pc, pub, last>>

\* inserts into the telemetry table (and the insert into ATTRIBUTE, which
\* leaves a transaction open), publish calls, and the lowering of the
\* limit, on a backend that never fails; the sender may refuse a row
NextEvict ==
    \/ \E s \in {STATE_UNSENT, STATE_SENT}, v \in Values :
          /\ Insert("insert", TELEMETRY, s, v, NoTs, None, None,
                    FALSE, FALSE, FALSE)
          /\ call' = [call EXCEPT
                !.lost = @ \cup
                   {i \in IdxOf(tbl[TELEMETRY]) \ IdxOf(tbl'[TELEMETRY]) :
                       /\ RowAt(tbl[TELEMETRY], i).status = STATE_UNSENT
                       /\ i \notin call.handed},
                !.ins = [c |-> Len(tbl[TELEMETRY]),
                         max |-> retain_max_entries, B |-> num_to_age,
                         txn |-> in_txn,
                         status |-> insert(TELEMETRY, s, v, NoTs, None, None,
                                           FALSE, FALSE, FALSE).status]]
    \/ /\ ~in_txn
       /\ Insert("insert", ATTRIBUTE, Omitted, None, NoTs, None, None,
                 FALSE, FALSE, FALSE)
       /\ UNCHANGED call
    \/ \E n \in 1..MaxEntries : LowerMax(n) /\ UNCHANGED call
    \/ PublishBegin(TELEMETRY, STATE_SENT) /\ UNCHANGED call
    \/ \E ok \in BOOLEAN :
          /\ PublishSend(ok)
          /\ call' = [call EXCEPT !.handed = @ \cup {Head(pub.ptr).idx}]
    \/ \E k \in pub.todo : PublishUpdate(k, FALSE) /\ UNCHANGED call
    \/ PublishReturn /\ UNCHANGED call

SpecEvict == InitEvict /\ [][NextEvict]_vars

\* ================================================================= claims
StatusOf(rows, i) ==
    IF i \in IdxOf(rows) THEN RowAt(rows, i).status ELSE "deleted"

\* the indices of the rows that were unsent when the running publish call
\* began, in ascending order
RECURSIVE SortedIdx(_)
SortedIdx(S) ==
    IF S = {} THEN <<>>
    ELSE LET m == CHOOSE x \in S : \A y \in S : x <= y
         IN  <<m>> \o SortedIdx(S \ {m})

UnsentAtStart ==
    SortedIdx({i \in IdxOf(pub.pre) : StatusOf(pub.pre, i) = STATE_UNSENT})

Handed(calls) == {calls[j].idx : j \in 1..Len(calls)}

AllCallsOk == \A j \in 1..Len(pub.calls) : pub.calls[j].ok

\* the sender call that failed in the running publish call, as a position
\* in the list of rows that were unsent when the call began (0: none failed)
FailedCall ==
    IF AllCallsOk THEN 0
    ELSE CHOOSE k \in 1..Len(pub.calls) : ~pub.calls[k].ok

\* C1: partial publish failure.  When a publish call whose sender failed on
\* call k returns (every state update having succeeded), the call reports
\* failure, the first k-1 rows that were unsent are in new_state, and rows
\* k..n are still unsent.
C1_PartialFailure ==
    (pc = "ret" /\ FailedCall > 0 /\ ~pub.upd_fail) =>
        /\ pub.status = STATUS_FAILURE
        /\ \A j \in 1..Len(UnsentAtStart) :
              StatusOf(tbl[pub.table], UnsentAtStart[j]) =
                 IF j < FailedCall THEN pub.new_state ELSE STATE_UNSENT

\* C2: successful publish.  When a publish call returns after every sender
\* call and every state update succeeded, every row that was unsent when the
\* call began is in new_state, no row of the table is unsent (new_state not
\* being unsent), and the call reports success.
C2_SuccessfulPublish ==
    (pc = "ret" /\ AllCallsOk /\ ~pub.upd_fail) =>
        /\ \A j \in 1..Len(UnsentAtStart) :
              StatusOf(tbl[pub.table], UnsentAtStart[j]) = pub.new_state
        /\ pub.new_state # STATE_UNSENT =>
              \A i \in IdxOf(tbl[pub.table]) :
                 StatusOf(tbl[pub.table], i) # STATE_UNSENT
        /\ pub.status = STATUS_SUCCESS

\* C2, for a call that found at least one unsent row (what the code does)
C2_SuccessfulPublishNonEmpty ==
    (pc = "ret" /\ AllCallsOk /\ ~pub.upd_fail /\ UnsentAtStart # <<>>) =>
        /\ \A j \in 1..Len(UnsentAtStart) :
              StatusOf(tbl[pub.table], UnsentAtStart[j]) = pub.new_state
        /\ pub.status = STATUS_SUCCESS

\* C3: stop on first failure.  In one publish call no sender call follows a
\* sender call that failed: a failed call is the last call of the list.
C3_StopOnFirstFailure ==
    \A j \in 1..Len(pub.calls) : ~pub.calls[j].ok => j = Len(pub.calls)

\* a publish call returns after a sender failure with rows it never handed
\* to the sender
C3_Witness ==
    /\ pc = "ret"
    /\ FailedCall > 0
    /\ Len(UnsentAtStart) >= FailedCall + 1
    /\ Len(pub.calls) = FailedCall

\* C4: publish selection and order.  The rows a publish call hands to the
\* sender were unsent in the table when the call began, and are handed in
\* strictly ascending index order (so each at most once); no row in another
\* state is handed over.
C4_SelectionAndOrder ==
    /\ \A j \in 1..Len(pub.calls) :
          StatusOf(pub.pre, pub.calls[j].idx) = STATE_UNSENT
    /\ \A j \in 1..Len(pub.calls), k \in 1..Len(pub.calls) :
          j < k => pub.calls[j].idx < pub.calls[k].idx

\* a publish call has handed over two rows of a table in which a row with a
\* lower index, and one in between, were not unsent
C4_Witness ==
    /\ Len(pub.calls) >= 2
    /\ \E i \in IdxOf(pub.pre) :
          /\ StatusOf(pub.pre, i) # STATE_UNSENT
          /\ pub.calls[1].idx < i
          /\ i < pub.calls[2].idx

\* C5 as stated: at-least-once delivery across a crash.  After a crash
\* between the send loop and the update loop the rows the sender accepted
\* are still stored unsent; the publish call that follows hands every one of
\* them to the sender again; and a row the sender accepted is never in a
\* state other than unsent and new_state.
C5_AtLeastOnceOriginal ==
    /\ last.op = "crash" =>
          \A i \in last.accepted :
             StatusOf(tbl[last.table], i) = STATE_UNSENT
    /\ pc = "ret" => pub.redo \subseteq Handed(pub.calls)
    /\ pc # "idle" =>
          \A i \in Accepted(pub.calls) :
             StatusOf(tbl[pub.table], i) \in {STATE_UNSENT, pub.new_state}

\* C5 as amended: the publish call that follows the crash selects every one
\* of those rows, and hands each to the sender unless a sender call failed
\* on a row with a lower index.
C5_AtLeastOnce ==
    /\ last.op = "crash" =>
          \A i \in last.accepted :
             StatusOf(tbl[last.table], i) = STATE_UNSENT
    /\ pc # "idle" =>
          /\ pub.redo \subseteq SeqToSet(UnsentAtStart)
          /\ \A i \in Accepted(pub.calls) :
                StatusOf(tbl[pub.table], i) \in {STATE_UNSENT, pub.new_state}
    /\ pc = "ret" =>
          \A i \in pub.redo :
             \/ i \in Handed(pub.calls)
             \/ \E j \in 1..Len(pub.calls) :
                   ~pub.calls[j].ok /\ pub.calls[j].idx < i

\* the publish call after a crash between the loops returns having handed
\* the two rows of the interrupted call to the sender again
C5_Witness ==
    /\ pc = "ret"
    /\ Cardinality(pub.redo) >= 2
    /\ pub.redo \subseteq Accepted(pub.calls)

\* C6: no redelivery without a crash.  Over publish calls on one table that
\* follow each other, with every update succeeding and new_state other than
\* unsent, the sender accepts no row it accepted in an earlier call.
C6_NoRedelivery ==
    pc # "idle" => Accepted(pub.calls) \cap pub.prev = {}

\* C7: default initial state.  A row inserted with no state argument, None
\* or the empty string is stored unsent; a row inserted with a state
\* constant is stored with that state.
C7_DefaultState ==
    last.op = "insert" =>
        LET rows == tbl[last.table]
        IN  rows[Len(rows)].status =
               IF last.arg \in {Omitted, None, ""} THEN STATE_UNSENT
               ELSE last.arg

\* C7, the part the code keeps: an explicit state constant is stored as given
C7_ExplicitState ==
    (last.op = "insert" /\ last.arg \in States) =>
        LET rows == tbl[last.table]
        IN  rows[Len(rows)].status = last.arg

\* a step in which insert() returned STATUS_SUCCESS for table t: the only
\* step that assigns a new idx
InsertSucceeds(t) == seq'[t] = seq[t] + 1

\* retention has nothing to evict from table t: fewer rows than
\* retain_max_entries under STORAGE_LIMITED, no expired row under
\* STORAGE_MAX_DAYS
NothingToEvict(t) ==
    /\ retention_policy = STORAGE_LIMITED =>
          get_row_count(tbl[t], FALSE) < retain_max_entries
    /\ retention_policy = STORAGE_MAX_DAYS =>
          \A j \in 1..Len(tbl[t]) : ~Expired(tbl[t][j], max_days_to_retain)

\* C8: insert grows the table by one.  An insert that returns success on a
\* table from which retention evicts nothing (row count below
\* retain_max_entries under STORAGE_LIMITED, no expired row under
\* STORAGE_MAX_DAYS) leaves that table with one row more and every other
\* table with the row count it had.
C8_InsertGrowsByOne ==
    [][\A t \in Tables :
          (InsertSucceeds(t) /\ NothingToEvict(t)) =>
             /\ get_row_count(tbl'[t], FALSE) = get_row_count(tbl[t], FALSE) + 1
             /\ \A u \in Tables \ {t} :
                   get_row_count(tbl'[u], FALSE) = get_row_count(tbl[u], FALSE)
      ]_vars

\* an insert has succeeded on a table that never lost a row and holds two,
\* while another table holds rows too
C8_Witness ==
    /\ retention_policy = STORAGE_LIMITED
    /\ last.op = "insert"
    /\ Len(tbl[last.table]) = seq[last.table]
    /\ Len(tbl[last.table]) >= 2
    /\ \E u \in Tables \ {last.table} : Len(tbl[u]) > 0

\* C9: count-based eviction.  With 1 <= num_to_age <= retain_max_entries, a
\* successful insert into a table that holds exactly retain_max_entries rows
\* leaves the rows but the num_to_age with the smallest indices, followed by
\* the new row: retain_max_entries - num_to_age + 1 rows.
C9_CountEviction ==
    [][\A t \in Tables :
          (InsertSucceeds(t)
             /\ retention_policy = STORAGE_LIMITED
             /\ retention_drop_mode = STORAGE_AGE_OLDEST
             /\ 1 <= num_to_age /\ num_to_age <= retain_max_entries
             /\ Len(tbl[t]) = retain_max_entries) =>
             /\ Len(tbl'[t]) = retain_max_entries - num_to_age + 1
             /\ SubSeq(tbl'[t], 1, Len(tbl'[t]) - 1) =
                   SubSeq(tbl[t], num_to_age + 1, Len(tbl[t]))
             /\ tbl'[t][Len(tbl'[t])].idx = seq'[t]
      ]_vars

\* C10: bounded storage.  Under STORAGE_LIMITED with STORAGE_AGE_OLDEST no
\* table ever holds more than retain_max_entries rows.
C10_BoundedStorage ==
    (retention_policy = STORAGE_LIMITED
       /\ retention_drop_mode = STORAGE_AGE_OLDEST) =>
        \A t \in Tables : Len(tbl[t]) <= retain_max_entries

\* C11: age-based eviction.  Under STORAGE_MAX_DAYS with max_days_to_retain
\* >= 1, a successful insert into a table deletes every row of it whose ts is
\* more than max_days_to_retain days before the clock, whatever its state and
\* the row count, keeps every row whose ts is less than that old, and adds
\* the new row after them.
C11_AgeEviction ==
    [][\A t \in Tables :
          (InsertSucceeds(t)
             /\ retention_policy = STORAGE_MAX_DAYS
             /\ max_days_to_retain >= 1) =>
             /\ \A j \in 1..Len(tbl[t]) :
                   tbl[t][j].ts < now - max_days_to_retain =>
                      tbl[t][j].idx \notin IdxOf(tbl'[t])
             /\ \A j \in 1..Len(tbl[t]) :
                   tbl[t][j].ts > now - max_days_to_retain =>
                      \E k \in 1..(Len(tbl'[t]) - 1) : tbl'[t][k] = tbl[t][j]
             /\ tbl'[t][Len(tbl'[t])].idx = seq'[t]
      ]_vars

\* the rows of a sequence, as a set
RowSet(rows) == {rows[j] : j \in 1..Len(rows)}

\* C12: retention touches the target table only.  Under either retention
\* policy an insert, whatever it returns, leaves the rows of every table
\* other than its own exactly as it found them.
C12_RetentionFrame ==
    call.op = "insert" =>
        \A u \in Tables \ {call.table} : tbl[u] = call.pre[u]

\* an insert has evicted rows from its own table while another table held
\* as many rows as retain_max_entries
C12_Witness ==
    /\ call.op = "insert"
    /\ call.status = STATUS_SUCCESS
    /\ retention_policy = STORAGE_LIMITED
    /\ RowSet(call.pre[call.table]) \ RowSet(tbl[call.table]) # {}
    /\ \E u \in Tables \ {call.table} : Len(tbl[u]) >= retain_max_entries

\* the same under STORAGE_MAX_DAYS: another table held an expired row
C12_WitnessMaxDays ==
    /\ call.op = "insert"
    /\ call.status = STATUS_SUCCESS
    /\ retention_policy = STORAGE_MAX_DAYS
    /\ RowSet(call.pre[call.table]) \ RowSet(tbl[call.table]) # {}
    /\ \E u \in Tables \ {call.table} :
          \E r \in RowSet(tbl[u]) : Expired(r, max_days_to_retain)

\* the row a recorded insert has added: the last row select_table returns
CallRow == LET rows == select_table(call.table) IN rows[Len(rows)]

\* C16: insert/read round trip.  After a successful insert through any
\* entry point, the row read back with select_table holds every field the
\* caller supplied: the value, the latitude and the longitude, the state
\* when a state constant was given, the ts when one was given.
C16_RoundTrip ==
    (call.op = "insert" /\ call.status = STATUS_SUCCESS) =>
        /\ call.table = TELEMETRY => CallRow.value = call.value
        /\ call.table = LOCATION =>
              /\ CallRow.latitude = call.latitude
              /\ CallRow.longitude = call.longitude
        /\ call.state \in States => CallRow.status = call.state
        /\ call.ts # NoTs => CallRow.ts = call.ts[1]

\* C16 for insert() itself, which stores what it is given
C16_RoundTripInsert ==
    (call.op = "insert" /\ call.status = STATUS_SUCCESS
       /\ call.entry = "insert") =>
        /\ call.table = TELEMETRY => CallRow.value = call.value
        /\ call.table = LOCATION =>
              /\ CallRow.latitude = call.latitude
              /\ CallRow.longitude = call.longitude
        /\ call.state \in States => CallRow.status = call.state
        /\ call.ts # NoTs => CallRow.ts = call.ts[1]

\* C19: insert is atomic.  An insert whose INSERT statement or commit fails
\* on the backend returns a failure status, is rolled back (no transaction
\* is left), and leaves no row in its table that was not there before; after
\* an insert that returns success the table ends with the one new row,
\* complete, after rows that were there before.
C19_InsertAtomic ==
    /\ (call.op = "insert" /\ call.fault = "insert"
          /\ HasInsertSql(call.table)) =>
          /\ call.status = STATUS_FAILURE
          /\ ~in_txn
          /\ RowSet(tbl[call.table]) \subseteq RowSet(call.pre[call.table])
    /\ (call.op = "insert" /\ call.status = STATUS_SUCCESS) =>
          LET rows == tbl[call.table]
          IN  /\ rows # <<>>
              /\ CallRow.idx \notin IdxOf(call.pre[call.table])
              /\ CallRow.status \in States
              /\ RowSet(SubSeq(rows, 1, Len(rows) - 1))
                    \subseteq RowSet(call.pre[call.table])

\* the INSERT of an insert into a table that holds a row has failed
C19_Witness ==
    /\ call.op = "insert"
    /\ call.fault = "insert"
    /\ ~call.txn
    /\ HasInsertSql(call.table)
    /\ call.pre[call.table] # <<>>
    /\ call.status = STATUS_FAILURE

\* C20: all four kinds accept inserts.  An insert into any table of
\* table_list, with no backend failure, returns success and leaves exactly
\* one row in that table that was not there before.
C20_AllKindsInsert ==
    (call.op = "insert" /\ call.table \in Tables /\ call.fault = "none") =>
        /\ call.status = STATUS_SUCCESS
        /\ Cardinality(RowSet(tbl[call.table])
                          \ RowSet(call.pre[call.table])) = 1

\* C20 for the three kinds insert() has a statement for, on a connection
\* with no transaction left open
C20_ThreeKindsInsert ==
    (call.op = "insert" /\ HasInsertSql(call.table) /\ call.fault = "none"
       /\ ~call.txn) =>
        /\ call.status = STATUS_SUCCESS
        /\ Cardinality(RowSet(tbl[call.table])
                          \ RowSet(call.pre[call.table])) = 1

\* the rows of the recorded call's table that were unsent when it began, in
\* ascending index order
UnsentBefore ==
    LET rows == call.pre[call.table]
        idxs == SortedIdx({i \in IdxOf(rows) : StatusOf(rows, i) = STATE_UNSENT})
    IN  [k \in 1..Len(idxs) |-> RowAt(rows, idxs[k])]

Abs(x) == IF x < 0 THEN -x ELSE x

\* the indices the marking rule of the claim marks in a sequence of rows:
\* every row but the first whose value is within plus_minus of the value of
\* the row before it
RECURSIVE RuleMarks(_, _, _)
RuleMarks(rows, k, plus_minus) ==
    IF k > Len(rows) THEN <<>>
    ELSE (IF k >= 2 /\ Abs(rows[k].value - rows[k - 1].value) <= plus_minus
          THEN <<rows[k].idx>> ELSE <<>>)
            \o RuleMarks(rows, k + 1, plus_minus)

\* the same rule with the exception the code makes: no mark after a row
\* whose value is 0
RECURSIVE RuleMarksNonZero(_, _, _)
RuleMarksNonZero(rows, k, plus_minus) ==
    IF k > Len(rows) THEN <<>>
    ELSE (IF k >= 2 /\ rows[k - 1].value # 0
               /\ Abs(rows[k].value - rows[k - 1].value) <= plus_minus
          THEN <<rows[k].idx>> ELSE <<>>)
            \o RuleMarksNonZero(rows, k + 1, plus_minus)

\* a recorded data_smooth_on_change call that got as far as the scan
Scanned ==
    /\ call.op = "smooth"
    /\ call.field \in field_list
    /\ HasColumn(call.table, call.field)

\* C13: change-detection marking rule.  The list data_smooth_on_change
\* returns holds exactly the unsent rows that are not the first unsent row
\* and whose value differs from the value of the unsent row before them, in
\* index order, by at most plus_minus, whether or not that row was marked.
C13_MarkingRule ==
    Scanned => call.ret = RuleMarks(UnsentBefore, 1, call.plus_minus)

\* C13 as the code has it: a row that follows a row of value 0 is not marked
C13_MarkingRuleNonZero ==
    Scanned => call.ret = RuleMarksNonZero(UnsentBefore, 1, call.plus_minus)

\* every update of the recorded data_smooth_on_change call succeeded
UpdatesSucceeded == call.bad = {} /\ ~call.txn

\* C14: smooth applies the caller's mark state.  After
\* data_smooth_on_change(table, field, plus_minus, state) has returned with
\* every update succeeding, every row whose index is in the returned list
\* has the state given.
C14_MarkState ==
    (Scanned /\ UpdatesSucceeded) =>
        \A i \in SeqToSet(call.ret) :
           StatusOf(tbl[call.table], i) = call.state

\* C14 as the code has it: the rows are marked STATE_IGNORE
C14_MarkIgnore ==
    (Scanned /\ UpdatesSucceeded) =>
        \A i \in SeqToSet(call.ret) :
           StatusOf(tbl[call.table], i) = STATE_IGNORE

\* C15: smooth rejects an unregistered field name.  Called with a field
\* name that is not in field_list, data_smooth_on_change returns None and
\* leaves every row, and the connection, as it found them.
C15_InvalidField ==
    (call.op = "smooth" /\ call.field \notin field_list) =>
        /\ call.ret = None
        /\ tbl = call.pre
        /\ in_txn = call.txn

\* the call with the unregistered field name was made on a table in which
\* the scan of the value column would have marked a row
C15_Witness ==
    /\ call.op = "smooth"
    /\ call.field \notin field_list
    /\ ignore_list(call.table, call.plus_minus) # <<>>

\* C17: update_state is idempotent.  When update_state(table, idx, state)
\* has been called twice in a row on an existing row, with no backend
\* failure, the tables are as the first call left them and the second call
\* returned STATUS_SUCCESS.
C17_Idempotent ==
    (call.op = "update_state" /\ call.n = 2) =>
        /\ tbl = call.once
        /\ call.status2 = STATUS_SUCCESS

\* C17 as the code has it: idempotent when the first call finds no
\* transaction open on the connection
C17_IdempotentNoTxn ==
    (call.op = "update_state" /\ call.n = 2 /\ ~call.txn) =>
        /\ tbl = call.once
        /\ call.status2 = STATUS_SUCCESS

\* the backend failed during the recorded update_state call
UpdateFailed == call.op = "update_state" /\ call.n = 1 /\ call.fault

Ascending(rows) == \A j \in 1..(Len(rows) - 1) : rows[j].idx < rows[j + 1].idx

\* C21: indices are strictly increasing and never reused.  In every step, a
\* row that is new in a table has an idx greater than every idx seen in that
\* table before, rows since deleted included, and the rows of every table
\* are in strictly ascending order of idx (so no idx occurs twice).
C21_IndexNeverReused ==
    [][\A t \in Tables :
          /\ \A i \in IdxOf(tbl'[t]) \ IdxOf(tbl[t]) :
                \A j \in EverAssigned(t) : i > j
          /\ Ascending(tbl'[t])]_vars

\* a table holds a row inserted after the rows of greater rowid position
\* were deleted: its only row has an idx of 2 or more
C21_Witness ==
    \E t \in Tables :
       /\ Len(tbl[t]) = 1
       /\ tbl[t][1].idx >= 2
       /\ EverAssigned(t) = 1..tbl[t][1].idx

\* the calls that are to reject an unknown table name
TableCheckedOps == {"insert", "select_all_by_state", "select_table",
                    "get_row_count", "update_state", "data_smooth_on_change"}

\* C22: unknown table names fail fast with no side effects.  insert,
\* select_all_by_state, select_table, get_row_count, update_state and
\* data_smooth_on_change, called with a table name that is not in
\* table_list and with no backend failure, return an error value to the
\* caller (a status other than success, or None) and leave every table as
\* it was.
C22_UnknownTable ==
    (call.op \in TableCheckedOps /\ ~is_type_valid(call.table)
        /\ call.at = "none") =>
        /\ call.ret \in {STATUS_FULL, STATUS_FAILURE, None}
        /\ tbl = call.pre

\* C22 as the code has it: true of insert, both selects and update_state
C22_UnknownTableFour ==
    (call.op \in {"insert", "select_all_by_state", "select_table",
                  "update_state"}
        /\ ~is_type_valid(call.table) /\ call.at = "none") =>
        /\ call.ret \in {STATUS_FULL, STATUS_FAILURE, None}
        /\ tbl = call.pre

TransactionOps == {"insert", "update_state", "remove", "custom_sql_command"}

\* C24: backend failures never escape as crashes.  A call of insert,
\* update_state, remove or custom_sql_command on a table that takes rows, during which the
\* backend fails at begin, at the data statement or at commit, returns
\* STATUS_FAILURE; it does not end in an exception.
C24_NoCrash ==
    (call.op \in TransactionOps /\ call.table = TELEMETRY
        /\ call.at # "none") =>
        call.ret = STATUS_FAILURE

\* C24 as the code has it: true of a failure at the data statement or at
\* commit
C24_NoCrashAfterBegin ==
    (call.op \in TransactionOps /\ call.table = TELEMETRY
        /\ call.at \in {"statement", "commit"}) =>
        call.ret = STATUS_FAILURE

\* C26: select_by_state returns exactly the matching rows in order.  On a
\* table of table_list and with no backend failure, select_all_by_state
\* yields each row of the table whose status is the state given, no other
\* row, no row twice, in ascending order of idx; select_table yields every
\* row of the table, each once, in ascending order of idx.
C26_SelectExact ==
    (call.op \in {"select_all_by_state", "select_table"}
        /\ is_type_valid(call.table) /\ call.at = "none") =>
        /\ Ascending(call.ret)
        /\ SeqToSet(call.ret) =
             {r \in SeqToSet(tbl[call.table]) :
                 call.op = "select_table" \/ r.status = call.arg}

\* the selection by state left out a row of another state that stands
\* between two rows it returned
C26_Witness ==
    /\ call.op = "select_all_by_state"
    /\ call.at = "none"
    /\ is_type_valid(call.table)
    /\ Len(call.ret) = 2
    /\ Len(tbl[call.table]) = 3
    /\ tbl[call.table][2].status # call.arg

\* C25: no plaintext fallback.  When the constructor is called with a key
\* and pysqlcipher is not installed, it fails: it raises, it opens no
\* sqlite3 connection, it leaves no plaintext database file, and no row is
\* ever written to the store.
C25_NoPlaintextFallback ==
    (call.op = "open" /\ ~Falsy(call.key) /\ ~call.secure) =>
        /\ call.raised
        /\ call.conn # "sqlite3"
        /\ call.file # "plaintext"
        /\ \A t \in Tables : tbl[t] = <<>>

\* the constructor was called with a key, without pysqlcipher
C25_Witness ==
    /\ call.op = "open"
    /\ call.key = "secret"
    /\ ~call.secure
    /\ call.conn = None

\* the retention step of the recorded insert ran an eviction command: the
\* table was at its limit under STORAGE_LIMITED with STORAGE_AGE_OLDEST, or
\* the policy is STORAGE_MAX_DAYS
EvictionRan ==
    \/ /\ retention_policy = STORAGE_LIMITED
       /\ retention_drop_mode = STORAGE_AGE_OLDEST
       /\ Len(call.pre[call.table]) >= retain_max_entries
    \/ /\ retention_policy = STORAGE_MAX_DAYS
       /\ max_days_to_retain # 0

\* the table of the recorded insert holds the rows it held before the call,
\* followed by one new row
OneRowAppended ==
    LET rows == tbl[call.table]
        pre  == call.pre[call.table]
    IN  /\ Len(rows) = Len(pre) + 1
        /\ SubSeq(rows, 1, Len(pre)) = pre
        /\ rows[Len(rows)].idx \notin IdxOf(pre)

FullKeepOldest ==
    /\ call.op = "insert"
    /\ retention_policy = STORAGE_LIMITED
    /\ retention_drop_mode = STORAGE_KEEP_OLDEST
    /\ Len(call.pre[call.table]) >= retain_max_entries

\* C28: KeepOldest when full.  Under STORAGE_LIMITED with
\* STORAGE_KEEP_OLDEST, an insert into a table that holds retain_max_entries
\* rows or more deletes no row; the INSERT is still run, and when the
\* backend accepts it the insert returns STATUS_SUCCESS and the table holds
\* one row more than before.
C28_KeepOldest ==
    FullKeepOldest =>
        /\ Len(tbl[call.table]) >= Len(call.pre[call.table])
        /\ SubSeq(tbl[call.table], 1, Len(call.pre[call.table])) =
              call.pre[call.table]
        /\ (call.fault = "none" /\ ~call.txn) => call.status = STATUS_SUCCESS
        /\ call.status = STATUS_SUCCESS => OneRowAppended
        /\ call.status # STATUS_SUCCESS => tbl = call.pre

\* the table has grown beyond retain_max_entries
C28_Witness ==
    /\ FullKeepOldest
    /\ call.status = STATUS_SUCCESS
    /\ Len(tbl[call.table]) > retain_max_entries

\* C29: publish_unsent reports failure if and only if a sender call failed.
\* When a publish call returns, its status is STATUS_FAILURE exactly when
\* one of its sender calls failed; a call that found no unsent row has made
\* no sender call, has changed no row, and reports STATUS_SUCCESS.
C29_FailureIffSenderFailed ==
    pc = "ret" =>
        /\ pub.status = STATUS_FAILURE <=> ~AllCallsOk
        /\ UnsentAtStart = <<>> =>
              /\ pub.calls = <<>>
              /\ tbl[pub.table] = pub.pre
              /\ pub.status = STATUS_SUCCESS

\* C29 as the code has it: a call that found no unsent row makes no sender
\* call, changes no row and reports STATUS_FAILURE; any other call reports
\* STATUS_FAILURE exactly when one of its sender calls failed
C29_FailureIffSenderFailedOrEmpty ==
    pc = "ret" =>
        /\ pub.status = STATUS_FAILURE <=>
              (~AllCallsOk \/ UnsentAtStart = <<>>)
        /\ UnsentAtStart = <<>> =>
              /\ pub.calls = <<>>
              /\ tbl[pub.table] = pub.pre

\* a publish call is returning STATUS_SUCCESS and no row of its table is
\* unsent
Drained ==
    /\ pc = "ret"
    /\ pub.status = STATUS_SUCCESS
    /\ \A i \in IdxOf(tbl[pub.table]) :
          StatusOf(tbl[pub.table], i) # STATE_UNSENT

\* C30: retry drains the queue.  Once the application only calls
\* publish_unsent_telemetry(client, STATE_SENT), again and again with no
\* insert in between, and the sender succeeds from some point on, a publish
\* call eventually returns STATUS_SUCCESS and leaves no telemetry row
\* unsent.
C30_RetryDrains == <>(call.phase = "drain") => <>Drained

\* C30 as the code has it: true when a telemetry row is unsent
C30_RetryDrainsNonEmpty ==
    <>(call.phase = "drain"
        /\ \E i \in IdxOf(tbl[TELEMETRY]) :
              StatusOf(tbl[TELEMETRY], i) = STATE_UNSENT) => <>Drained

\* the indices of the returned list whose update_state call failed in the
\* recorded data_smooth_on_change call: those the backend failed, and the
\* first of the list when the call found a transaction open
SmoothFailed ==
    call.bad \cup (IF call.txn /\ call.ret # <<>> THEN {call.ret[1]} ELSE {})

LeavesRemove ==
    \E t \in Tables : \E i \in IdxOf(tbl[t]) :
       /\ StatusOf(tbl[t], i) = STATE_REMOVE
       /\ StatusOf(tbl'[t], i) \notin {STATE_REMOVE, "deleted"}

\* C32: no transition out of remove.  No step of the store changes the
\* state of a row that is in state remove to another state: the row keeps
\* the state or is deleted.
C32_NoWayOutOfRemove == [][~LeavesRemove]_vars

\* C32 as the code has it: only update_state takes a row out of state
\* remove; data_smooth_on_change, the publish calls, insert and remove
\* never do.
C32_OnlyUpdateState ==
    [][LeavesRemove =>
          \E s \in LifeStates : \E i \in IdxOf(tbl[TELEMETRY]) :
             UpdateState(TELEMETRY, i, s, FALSE)]_vars

\* C33: no transaction is left open.  Whenever a call of the store has
\* handed control back to the caller, by a return or by a raised error, the
\* connection has no transaction open.
C33_NoOpenTransaction == pc = "idle" => ~in_txn

\* C33 as the code has it: a recorded insert that found no transaction
\* open leaves one open only when its table is ATTRIBUTE
C33_OnlyAttributeOpens ==
    (call.op = "insert" /\ ~call.txn /\ in_txn) => call.table = ATTRIBUTE

\* the number a string of digits stands for, among the indices of the model
IndexOfString(s) ==
    IF \E n \in 0..MaxInserts + 1 : str(n) = s
    THEN CHOOSE n \in 0..MaxInserts + 1 : str(n) = s
    ELSE -1

\* C34: telemetry publish payload.  In a publish_unsent_telemetry call, the
\* k-th call of the sender is for the k-th row handed over and receives that
\* row's name, its value, a correlation id that is the row's index written
\* in digits, and the row's stored timestamp.
C34_TelemetryPayload ==
    (call.op = "payload" /\ pc # "idle") =>
        /\ Len(call.sent) = Len(pub.calls)
        /\ \A k \in 1..Len(call.sent) :
              LET r == RowAt(tbl[TELEMETRY], pub.calls[k].idx)
              IN  /\ call.sent[k].name = call.name[r.idx]
                  /\ call.sent[k].value = r.value
                  /\ IndexOfString(call.sent[k].corr_id) = r.idx
                  /\ call.sent[k].timestamp = r.ts

\* C34 witness: the sender was called for two rows that differ in name,
\* value and timestamp
C34_Witness ==
    /\ call.op = "payload"
    /\ pc # "idle"
    /\ Len(call.sent) = 2
    /\ call.sent[1].name # call.sent[2].name
    /\ call.sent[1].value # call.sent[2].value
    /\ call.sent[1].timestamp # call.sent[2].timestamp
    /\ call.sent[2].corr_id = "2"

\* C35: frame of smooth and publish_unsent.  While and after a recorded
\* data_smooth_on_change or publish_unsent_* call runs, every other table
\* is as the call found it; its own table holds the same rows in the same
\* order, each with the fields it had but for the state; a row that was not
\* unsent when the call began has the state it had; and after
\* data_smooth_on_change the first unsent row is still unsent and is not in
\* the returned list.
C35_Frame ==
    call.op \in {"smooth", "publish"} =>
        LET pre  == call.pre[call.table]
            rows == tbl[call.table]
        IN  /\ \A u \in Tables \ {call.table} : tbl[u] = call.pre[u]
            /\ Len(rows) = Len(pre)
            /\ \A j \in 1..Len(pre) :
                  /\ [rows[j] EXCEPT !.status = pre[j].status] = pre[j]
                  /\ pre[j].status # STATE_UNSENT => rows[j] = pre[j]
            /\ (call.op = "smooth" /\ Len(UnsentBefore) > 0) =>
                  /\ StatusOf(rows, UnsentBefore[1].idx) = STATE_UNSENT
                  /\ Scanned => UnsentBefore[1].idx \notin SeqToSet(call.ret)

\* C35 witness (smooth): the filter changed the state of an unsent row
\* next to another table that holds a row
C35_Witness ==
    /\ call.op = "smooth"
    /\ tbl[call.table] # call.pre[call.table]
    /\ tbl[ALARM] # <<>>

\* C35 witness (smooth): the filter changed the state of an unsent row of
\* a table that also holds a row that was not unsent
C35_WitnessSmoothSent ==
    /\ call.op = "smooth"
    /\ tbl[call.table] # call.pre[call.table]
    /\ \E j \in 1..Len(call.pre[call.table]) :
          call.pre[call.table][j].status = STATE_SENT

\* C35 witness (publish): a publish call changed the state of an unsent row
\* of a table that also holds a row that was not unsent
C35_WitnessPublish ==
    /\ call.op = "publish"
    /\ pc = "ret"
    /\ tbl[call.table] # call.pre[call.table]
    /\ \E j \in 1..Len(call.pre[call.table]) :
          call.pre[call.table][j].status = STATE_SENT

\* the indices of the rows data_smooth_on_change left unsent
LeftUnsent ==
    {i \in IdxOf(call.post) : StatusOf(call.post, i) = STATE_UNSENT}

\* the indices of the rows whose state data_smooth_on_change changed
StateSet ==
    {i \in IdxOf(call.post) :
        StatusOf(call.post, i) # StatusOf(call.pre[TELEMETRY], i)}

\* C36: filtered rows are never transmitted.  No index of the list
\* data_smooth_on_change returned is handed to the sender by a later publish
\* call (no caller sets a state back to unsent here); and when the first
\* publish call after it has ended with the sender accepting every row, the
\* rows it handed over are exactly the rows the filter left unsent.
C36_FilteredNotSent ==
    call.op = "filter" =>
        /\ SeqToSet(call.ret) \cap call.handed = {}
        /\ (call.done /\ call.ok) => call.first = LeftUnsent

\* C36 as the code has it: a row whose state the filter did change is never
\* handed to the sender, every row handed over is one the filter left
\* unsent, and the first publish call that the sender accepts throughout
\* hands over exactly those rows.
C36_StateSetNotSent ==
    call.op = "filter" =>
        /\ StateSet \cap call.handed = {}
        /\ call.handed \subseteq LeftUnsent
        /\ (call.done /\ call.ok) => call.first = LeftUnsent

\* C36_StateSetNotSent is not vacuous: a row marked by the filter stayed
\* behind while a publish call handed over the rows left unsent
C36_StateSetWitness ==
    /\ call.op = "filter"
    /\ StateSet # {}
    /\ call.done /\ call.ok
    /\ call.first # {}

\* C36 for a filter call that found no transaction open: no index of the
\* returned list is handed to the sender afterwards
C36_CleanConnection ==
    (call.op = "filter" /\ ~call.txn) =>
        SeqToSet(call.ret) \cap call.handed = {}

\* the smaller of two numbers
Min(a, b) == IF a < b THEN a ELSE b

\* C37: eviction ignores row state.  Under STORAGE_LIMITED /
\* STORAGE_AGE_OLDEST, whenever a step deletes rows of the telemetry table,
\* the rows deleted are the num_to_age rows with the smallest indices (all
\* rows when there are fewer), whatever their state.
C37_EvictionIgnoresState ==
    [][LET pre  == tbl[TELEMETRY]
           gone == IdxOf(pre) \ IdxOf(tbl'[TELEMETRY])
       IN  gone # {} =>
              gone = {pre[j].idx : j \in 1..Min(num_to_age, Len(pre))}]_vars

\* C37 witness: a row inserted as unsent was deleted by a later insert
\* without ever having been handed to the sender
C37_Witness == call.op = "evict" /\ call.lost # {}

\* the larger of two numbers
Max(a, b) == IF a > b THEN a ELSE b

\* the last insert into the telemetry table returned success and found the
\* table at or over the limit
InsertAtLimit ==
    /\ call.op = "evict"
    /\ call.ins.status = STATUS_SUCCESS
    /\ call.ins.c >= call.ins.max

\* C38: eviction arithmetic when at or over the limit.  After a successful
\* insert into a table that held c >= retain_max_entries rows, the table
\* holds max(c - num_to_age, 0) + 1 rows; so when c was over the limit and
\* num_to_age >= 2, it holds fewer rows than before.
C38_EvictionArithmetic ==
    InsertAtLimit =>
        /\ Len(tbl[TELEMETRY]) = Max(call.ins.c - call.ins.B, 0) + 1
        /\ (call.ins.c > call.ins.max /\ call.ins.B >= 2) =>
              Len(tbl[TELEMETRY]) < call.ins.c

\* C38 for an insert that found no transaction open
C38_CleanConnection ==
    (InsertAtLimit /\ ~call.ins.txn) =>
        /\ Len(tbl[TELEMETRY]) = Max(call.ins.c - call.ins.B, 0) + 1
        /\ (call.ins.c > call.ins.max /\ call.ins.B >= 2) =>
              Len(tbl[TELEMETRY]) < call.ins.c

\* C38_CleanConnection is not vacuous: an insert found the table over a
\* limit that had been lowered, with a batch of two, and left fewer rows
C38_CleanWitness ==
    /\ InsertAtLimit
    /\ ~call.ins.txn
    /\ call.ins.c > call.ins.max
    /\ call.ins.B >= 2
    /\ Len(tbl[TELEMETRY]) < call.ins.c
====
